---- MODULE Spec2Model ----
(***************************************************************************)
(* Quiz Builder: the document parser (Core.js, QuizParser.parse), the      *)
(* validator (Services.js, QuizValidator.validate) and the pipeline that   *)
(* runs one after the other (Code.js, validateAndShowResults).             *)
(*                                                                         *)
(* A JavaScript string is modelled as the sequence of its characters, each *)
(* character a one-character TLA+ string, so that trim, startsWith, the    *)
(* regular expressions and the HTML escaping are computed and not assumed. *)
(***************************************************************************)
EXTENDS Integers, Sequences, FiniteSets, TLC

VARIABLES
  body,             \* the children of the document body the parser has fetched (getChild)
  numChildren,      \* body.getNumChildren(), read once at the start of parse
  pc,               \* position of the pipeline: "header", "main", "returned", "thrown", "validated"
  i,                \* loop index of parse (0-based, as in the code)
  quizType,         \* result.quizType
  questions,        \* result.questions
  beginIndex,       \* index of the header block, -1 is modelled as NoIndex
  beginLine,        \* 1-based line of the header block
  currentQuestion,  \* the question under construction, or NoQuestion
  state,            \* WAITING, READING_QUESTION, READING_OPTIONS, READING_DESCRIPTIONS
  err,              \* the Error thrown by parse, or NoError
  returned,         \* the value parse returned to its caller, or NoModel
  validation,       \* the value validate returned, or NoValidation
  images,           \* result.images: the entries filename -> blob, in insertion order
  exports,          \* the archives generateZip has returned, oldest first
  edits             \* the menu commands run on the document: name, selection, document before

vars == <<body, numChildren, pc, i, quizType, questions, beginIndex, beginLine,
          currentQuestion, state, err, returned, validation, images, exports,
          edits>>

----------------------------------------------------------------------------
(* Bounds of the model *)

\* Longest document (number of top-level blocks) that is explored.
MaxBlocks == 5

\* Most questions of a model given to validate, and most options of a question.
MaxQuestions == 2
MaxOptions == 3

\* generateZip runs at most MaxExports times on a model
MaxExports == 2

\* The clock shows one of MaxTime instants
MaxTime == 2

\* A document in the editor has at most MaxElements children, a selection covers
\* at most MaxSelection of them, and at most MaxEdits commands run on it.
MaxElements == 4
MaxSelection == 2
MaxEdits == 2

\* Questions of the longest document written in full, and most arguments of
\* an equation function in such a document.
MaxDocQuestions == 10
MaxArgs == 3

----------------------------------------------------------------------------
(* Strings *)

Null == <<"null">>          \* JavaScript null where a string is expected

IsSpace(c) == c = " "

IsDigit(c) == c \in {"0", "1", "2", "3", "4", "5", "6", "7", "8", "9"}

RECURSIVE TrimStart(_)
TrimStart(s) ==
  IF s # <<>> /\ IsSpace(Head(s)) THEN TrimStart(Tail(s)) ELSE s

RECURSIVE TrimEnd(_)
TrimEnd(s) ==
  IF s # <<>> /\ IsSpace(s[Len(s)]) THEN TrimEnd(SubSeq(s, 1, Len(s) - 1)) ELSE s

\* String.prototype.trim
Trim(s) == TrimEnd(TrimStart(s))

\* String.prototype.startsWith
StartsWith(s, p) == Len(s) >= Len(p) /\ SubSeq(s, 1, Len(p)) = p

\* String.prototype.slice(n) for 0 <= n
Slice(s, n) == SubSeq(s, n + 1, Len(s))

\* Array.prototype.join('') on an array of strings
RECURSIVE Join(_)
Join(parts) ==
  IF parts = <<>> THEN <<>> ELSE Head(parts) \o Join(Tail(parts))

\* replace(/\s+/g, ' ')
RECURSIVE CollapseSpaces(_)
CollapseSpaces(s) ==
  IF s = <<>> THEN <<>>
  ELSE IF IsSpace(Head(s))
       THEN <<" ">> \o CollapseSpaces(TrimStart(s))
       ELSE <<Head(s)>> \o CollapseSpaces(Tail(s))

\* Length of the longest prefix of s made of decimal digits
RECURSIVE DigitPrefixLen(_)
DigitPrefixLen(s) ==
  IF s # <<>> /\ IsDigit(Head(s)) THEN 1 + DigitPrefixLen(Tail(s)) ELSE 0

DigitValue(c) ==
  CASE c = "0" -> 0 [] c = "1" -> 1 [] c = "2" -> 2 [] c = "3" -> 3 [] c = "4" -> 4
    [] c = "5" -> 5 [] c = "6" -> 6 [] c = "7" -> 7 [] c = "8" -> 8 [] c = "9" -> 9

\* Number(digits)
RECURSIVE ToNumber(_)
ToNumber(s) ==
  IF s = <<>> THEN 0
  ELSE 10 * ToNumber(SubSeq(s, 1, Len(s) - 1)) + DigitValue(s[Len(s)])

DigitChar(d) ==
  CASE d = 0 -> "0" [] d = 1 -> "1" [] d = 2 -> "2" [] d = 3 -> "3" [] d = 4 -> "4"
    [] d = 5 -> "5" [] d = 6 -> "6" [] d = 7 -> "7" [] d = 8 -> "8" [] d = 9 -> "9"

\* String(n) for a natural number n
RECURSIVE ToStr(_)
ToStr(n) ==
  IF n < 10 THEN <<DigitChar(n)>> ELSE ToStr(n \div 10) \o <<DigitChar(n % 10)>>

\* The string literals of the code
S_BEGIN       == <<"[", "B", "E", "G", "I", "N", "#">>
S_MCQ         == <<"M", "C", "Q">>
S_ESSAY       == <<"E", "S", "S", "A", "Y">>
S_QUESTION    == <<"[", "Q", "U", "E", "S", "T", "I", "O", "N">>
S_OPTIONS     == <<"[", "O", "P", "T", "I", "O", "N", "S", "]">>
S_DESCRIPTIONS == <<"[", "D", "E", "S", "C", "R", "I", "P", "T", "I", "O", "N", "S", "]">>
S_MARKER      == <<"<", ">">>

\* The element names and attribute texts of the HTML the code emits
N_p     == <<"p">>
N_li    == <<"l", "i">>
N_ul    == <<"u", "l">>
N_ol    == <<"o", "l">>
N_table == <<"t", "a", "b", "l", "e">>
N_tr    == <<"t", "r">>
N_td    == <<"t", "d">>
S_BR    == <<"<", "b", "r", "/", ">">>
S_TYPE  == <<" ", "t", "y", "p", "e", "=">>
S_IMG       == <<"_", "i", "m", "g", "_">>
S_IMG_SRC   == <<"<", "i", "m", "g", " ", "s", "r", "c", "=", "\"", "i", "m", "a", "g", "e", "s", "/">>
S_WIDTH     == <<" ", "w", "i", "d", "t", "h", "=", "\"">>
S_HEIGHT    == <<" ", "h", "e", "i", "g", "h", "t", "=", "\"">>
S_IMG_STYLE == <<" ", "s", "t", "y", "l", "e", "=", "\"", "m", "a", "x", "-", "w", "i", "d", "t", "h", ":", " ", "1", "0", "0", "%", ";", " ", "h", "e", "i", "g", "h", "t", ":", " ", "a", "u", "t", "o", ";", "\"", " ", "/", ">">>

OpenTag(name, attrs) == <<"<">> \o name \o attrs \o <<">">>
CloseTag(name) == <<"<", "/">> \o name \o <<">">>

----------------------------------------------------------------------------
(* Tag recognition *)

\* A faulty _parseBeginTag that drops the "$" of the pattern
_parseBeginTag_PrefixOnly(text) ==
  LET t == Trim(text)
  IN  IF StartsWith(t, S_BEGIN \o S_MCQ \o <<"]">>) THEN S_MCQ
      ELSE IF StartsWith(t, S_BEGIN \o S_ESSAY \o <<"]">>) THEN S_ESSAY
      ELSE Null

\* _parseBeginTag: /^\[BEGIN#(MCQ|ESSAY)\]$/ on the trimmed text; Null when no match
_parseBeginTag(text) ==
  LET t == Trim(text)
  IN  IF t = S_BEGIN \o S_MCQ \o <<"]">> THEN S_MCQ
      ELSE IF t = S_BEGIN \o S_ESSAY \o <<"]">> THEN S_ESSAY
      ELSE Null

\* A faulty test that only sees a complete second header
IsBeginElsewhere_ExactOnly(text) ==
  text # <<>> /\ _parseBeginTag(text) # Null

\* The test of the main loop for a misplaced header: text && /^\[BEGIN#/.test(text)
IsBeginElsewhere(text) ==
  text # <<>> /\ StartsWith(text, S_BEGIN)

\* _parseQuestionTag: kind "null" (not a question tag), "tag" or "throw"
NoTag == [kind |-> "null", inlineText |-> <<>>, hasLabel |-> FALSE, labelNumber |-> 0]

\* A faulty _parseQuestionTag that knows the legacy tag only and never throws
_parseQuestionTag_Lenient(text) ==
  LET t == Trim(text)
  IN  IF StartsWith(t, S_QUESTION \o <<"]">>)
      THEN [kind |-> "tag", inlineText |-> Trim(Slice(t, Len(S_QUESTION) + 1)),
            hasLabel |-> FALSE, labelNumber |-> 0]
      ELSE NoTag

_parseQuestionTag(text) ==
  LET t    == Trim(text)
      rest == Slice(t, Len(S_QUESTION))            \* what follows "[QUESTION"
      nd   == DigitPrefixLen(Slice(rest, 1))       \* the \d+ after "#"
  IN  IF ~StartsWith(t, S_QUESTION) THEN NoTag
      ELSE IF StartsWith(t, S_QUESTION \o <<"]">>)
      THEN [kind |-> "tag", inlineText |-> Trim(Slice(t, Len(S_QUESTION) + 1)),
            hasLabel |-> FALSE, labelNumber |-> 0]
      ELSE IF /\ StartsWith(rest, <<"#">>)
              /\ nd >= 1
              /\ Len(rest) >= nd + 2
              /\ rest[nd + 2] = "]"
      THEN [kind |-> "tag", inlineText |-> Trim(Slice(rest, nd + 2)),
            hasLabel |-> TRUE, labelNumber |-> ToNumber(SubSeq(rest, 2, nd + 1))]
      ELSE [kind |-> "throw", inlineText |-> <<>>, hasLabel |-> FALSE, labelNumber |-> 0]

\* text.startsWith('[OPTIONS]') and text.startsWith('[DESCRIPTIONS]')
IsOptionsTag(text) == StartsWith(text, S_OPTIONS)

IsDescriptionsTag(text) == StartsWith(text, S_DESCRIPTIONS)

\* The correct-answer marker: /^\s*<>\s*/
HasLeadingMarker(s) == StartsWith(TrimStart(s), S_MARKER)

\* s.replace(/^\s*<>\s*/, '')
StripLeadingMarker(s) ==
  IF HasLeadingMarker(s) THEN TrimStart(Slice(TrimStart(s), Len(S_MARKER))) ELSE s

----------------------------------------------------------------------------
(* Rendering *)

EscapeChar(c) ==
  CASE c = "&"  -> <<"&", "a", "m", "p", ";">>
    [] c = "<"  -> <<"&", "l", "t", ";">>
    [] c = ">"  -> <<"&", "g", "t", ";">>
    [] c = "\"" -> <<"&", "q", "u", "o", "t", ";">>
    [] c = "'"  -> <<"&", "#", "0", "3", "9", ";">>
    [] OTHER    -> <<c>>

\* _escapeHtml
RECURSIVE _escapeHtml(_)
_escapeHtml(text) ==
  IF text = <<>> THEN <<>> ELSE EscapeChar(Head(text)) \o _escapeHtml(Tail(text))

\* A faulty loop that looks for the marker in every chunk
RECURSIVE StyledChunks_StripsEveryRun(_, _, _, _)
StyledChunks_StripsEveryRun(text, indices, k, done) ==
  IF k > Len(indices) THEN <<>>
  ELSE LET start == indices[k]
           end   == IF k + 1 <= Len(indices) THEN indices[k + 1] ELSE Len(text)
           chunk == SubSeq(text, start + 1, end)
       IN  IF chunk = <<>> THEN StyledChunks_StripsEveryRun(text, indices, k + 1, done)
           ELSE (IF done THEN _escapeHtml(chunk)
                 ELSE _escapeHtml(StripLeadingMarker(chunk)))
                \o StyledChunks_StripsEveryRun(text, indices, k + 1, done)

\* _extractStyledText: the text is cut at the attribute indices; the marker is
\* looked for in the first non-empty chunk only (context._markerStripped).
\* k is the position in indices, done the value of context._markerStripped
\* (TRUE from the start when the context does not ask for stripping).
RECURSIVE StyledChunks(_, _, _, _)
StyledChunks(text, indices, k, done) ==
  IF k > Len(indices) THEN <<>>
  ELSE LET start == indices[k]
           end   == IF k + 1 <= Len(indices) THEN indices[k + 1] ELSE Len(text)
           chunk == SubSeq(text, start + 1, end)
       IN  IF chunk = <<>> THEN StyledChunks(text, indices, k + 1, done)
           ELSE (IF done THEN _escapeHtml(chunk)
                 ELSE _escapeHtml(StripLeadingMarker(chunk)))
                \o StyledChunks(text, indices, k + 1, TRUE)

_extractStyledText(text, indices, stripLeadingCorrectMarker) ==
  IF text = <<>> THEN <<>>
  ELSE StyledChunks(text, indices, 1, ~stripLeadingCorrectMarker)

\* _getExtension
_getExtension(mime) ==
  CASE mime = "image/png"  -> <<"p", "n", "g">>
    [] mime = "image/jpeg" -> <<"j", "p", "g">>
    [] mime = "image/gif"  -> <<"g", "i", "f">>
    [] OTHER               -> <<"p", "n", "g">>

\* String(n).padStart(3, '0')
PadStart3(n) ==
  LET d == ToStr(n)
  IN  IF Len(d) >= 3 THEN d ELSE [k \in 1..(3 - Len(d)) |-> "0"] \o d

\* A faulty counter that counts the images of every question
ImageCount_AllQuestions(imageStore, questionId) == Len(imageStore)

\* Object.keys(imageStore).filter(k => k.startsWith(questionId + '_')).length
ImageCount(imageStore, questionId) ==
  Cardinality({k \in 1..Len(imageStore) :
                 StartsWith(imageStore[k].filename, questionId \o <<"_">>)})

\* The file name _extractNode gives to the next inline image of a question
ImageFilename(imageStore, questionId, image) ==
  questionId \o S_IMG \o PadStart3(ImageCount(imageStore, questionId) + 1)
    \o <<".">> \o _getExtension(image.blob.contentType)

\* imageStore[filename] = blob: a key that exists keeps its place
PutImage(imageStore, filename, blob) ==
  IF \E k \in 1..Len(imageStore) : imageStore[k].filename = filename
  THEN [k \in 1..Len(imageStore) |->
          IF imageStore[k].filename = filename
          THEN [filename |-> filename, blob |-> blob] ELSE imageStore[k]]
  ELSE Append(imageStore, [filename |-> filename, blob |-> blob])

\* _extractNode of an INLINE_IMAGE: the <img> element it returns
ImageHtml(imageStore, questionId, image) ==
  S_IMG_SRC \o ImageFilename(imageStore, questionId, image) \o <<"\"">>
    \o (IF image.width > 0 THEN S_WIDTH \o ToStr(image.width) \o <<"\"">> ELSE <<>>)
    \o (IF image.height > 0 THEN S_HEIGHT \o ToStr(image.height) \o <<"\"">> ELSE <<>>)
    \o S_IMG_STYLE

\* The image store after the inline images of an element, from image k on
RECURSIVE StoreAfterImages(_, _, _, _)
StoreAfterImages(inlineImages, k, imageStore, questionId) ==
  IF k > Len(inlineImages) THEN imageStore
  ELSE StoreAfterImages(inlineImages, k + 1,
         PutImage(imageStore, ImageFilename(imageStore, questionId, inlineImages[k]),
                  inlineImages[k].blob),
         questionId)

\* The HTML of the inline images of an element, from image k on
RECURSIVE ImagesHtml(_, _, _, _)
ImagesHtml(inlineImages, k, imageStore, questionId) ==
  IF k > Len(inlineImages) THEN <<>>
  ELSE ImageHtml(imageStore, questionId, inlineImages[k])
       \o ImagesHtml(inlineImages, k + 1,
             PutImage(imageStore, ImageFilename(imageStore, questionId, inlineImages[k]),
                      inlineImages[k].blob),
             questionId)

\* The children of an equation: Text, EquationFunction and EquationSymbol nodes
EquationText(text) ==
  [type |-> "TEXT", code |-> <<>>, text |-> text, children |-> <<>>]

EquationFunction(code, children) ==
  [type |-> "EQUATION_FUNCTION", code |-> code, text |-> <<>>, children |-> children]

EquationSymbol(code, text) ==
  [type |-> "EQUATION_SYMBOL", code |-> code, text |-> text, children |-> <<>>]

Equation(children) ==
  [type |-> "EQUATION", code |-> <<>>, text |-> <<>>, children |-> children]

\* /^[A-Za-z]$/
IsLetter(c) ==
  c \in {"a", "b", "c", "d", "e", "f", "g", "h", "i", "j", "k", "l", "m", "n", "o", "p", "q", "r", "s", "t", "u", "v", "w", "x", "y", "z",
   "A", "B", "C", "D", "E", "F", "G", "H", "I", "J", "K", "L", "M", "N", "O", "P", "Q", "R", "S", "T", "U", "V", "W", "X", "Y", "Z"}

\* replace(/^\\+/, '')
RECURSIVE StripBackslashes(_)
StripBackslashes(s) ==
  IF s # <<>> /\ Head(s) = "\\" THEN StripBackslashes(Tail(s)) ELSE s

\* knownCommands of _latexForEquationSymbolCode
knownCommands ==
  { <<"a", "l", "p", "h", "a">>,
    <<"b", "e", "t", "a">>,
    <<"g", "a", "m", "m", "a">>,
    <<"d", "e", "l", "t", "a">>,
    <<"e", "p", "s", "i", "l", "o", "n">>,
    <<"z", "e", "t", "a">>,
    <<"e", "t", "a">>,
    <<"t", "h", "e", "t", "a">>,
    <<"i", "o", "t", "a">>,
    <<"k", "a", "p", "p", "a">>,
    <<"l", "a", "m", "b", "d", "a">>,
    <<"m", "u">>,
    <<"n", "u">>,
    <<"x", "i">>,
    <<"o", "m", "i", "c", "r", "o", "n">>,
    <<"p", "i">>,
    <<"r", "h", "o">>,
    <<"s", "i", "g", "m", "a">>,
    <<"t", "a", "u">>,
    <<"u", "p", "s", "i", "l", "o", "n">>,
    <<"p", "h", "i">>,
    <<"c", "h", "i">>,
    <<"p", "s", "i">>,
    <<"o", "m", "e", "g", "a">>,
    <<"G", "a", "m", "m", "a">>,
    <<"D", "e", "l", "t", "a">>,
    <<"T", "h", "e", "t", "a">>,
    <<"L", "a", "m", "b", "d", "a">>,
    <<"X", "i">>,
    <<"P", "i">>,
    <<"S", "i", "g", "m", "a">>,
    <<"U", "p", "s", "i", "l", "o", "n">>,
    <<"P", "h", "i">>,
    <<"P", "s", "i">>,
    <<"O", "m", "e", "g", "a">>,
    <<"p", "m">>,
    <<"m", "p">>,
    <<"t", "i", "m", "e", "s">>,
    <<"d", "i", "v">>,
    <<"c", "d", "o", "t">>,
    <<"c", "i", "r", "c">>,
    <<"a", "s", "t">>,
    <<"s", "t", "a", "r">>,
    <<"o", "p", "l", "u", "s">>,
    <<"o", "t", "i", "m", "e", "s">>,
    <<"l", "e", "q">>,
    <<"g", "e", "q">>,
    <<"n", "e", "q">>,
    <<"a", "p", "p", "r", "o", "x">>,
    <<"s", "i", "m">>,
    <<"e", "q", "u", "i", "v">>,
    <<"p", "r", "o", "p", "t", "o">>,
    <<"i", "n">>,
    <<"n", "o", "t", "i", "n">>,
    <<"s", "u", "b", "s", "e", "t">>,
    <<"s", "u", "b", "s", "e", "t", "e", "q">>,
    <<"s", "u", "p", "s", "e", "t">>,
    <<"s", "u", "p", "s", "e", "t", "e", "q">>,
    <<"c", "u", "p">>,
    <<"c", "a", "p">>,
    <<"f", "o", "r", "a", "l", "l">>,
    <<"e", "x", "i", "s", "t", "s">>,
    <<"n", "e", "g">>,
    <<"l", "a", "n", "d">>,
    <<"l", "o", "r">>,
    <<"r", "i", "g", "h", "t", "a", "r", "r", "o", "w">>,
    <<"l", "e", "f", "t", "a", "r", "r", "o", "w">>,
    <<"l", "e", "f", "t", "r", "i", "g", "h", "t", "a", "r", "r", "o", "w">>,
    <<"R", "i", "g", "h", "t", "a", "r", "r", "o", "w">>,
    <<"L", "e", "f", "t", "a", "r", "r", "o", "w">>,
    <<"L", "e", "f", "t", "r", "i", "g", "h", "t", "a", "r", "r", "o", "w">>,
    <<"i", "n", "f", "t", "y">> }

\* _latexForEquationSymbolCode
_latexForEquationSymbolCode(code) ==
  LET trimmed == StripBackslashes(Trim(code))
  IN  IF trimmed = <<>> THEN <<>>
      ELSE IF trimmed \in {<<"s", "u", "p", "e", "r", "s", "c", "r", "i", "p", "t">>, <<"s", "u", "p", "e", "r">>} THEN <<"^">>
      ELSE IF trimmed \in {<<"s", "u", "b", "s", "c", "r", "i", "p", "t">>, <<"s", "u", "b">>} THEN <<"_">>
      ELSE IF Len(trimmed) = 1 /\ (IsLetter(trimmed[1]) \/ IsDigit(trimmed[1])) THEN trimmed
      ELSE IF (\A k \in 1..Len(trimmed) : IsLetter(trimmed[k])) /\ trimmed \notin knownCommands
           THEN trimmed
      ELSE <<"\\">> \o trimmed

S_FRAC == <<"f", "r", "a", "c">>
S_SQRT == <<"s", "q", "r", "t">>
S_UNDEFINED == <<"u", "n", "d", "e", "f", "i", "n", "e", "d">>

\* `${args[0]}`: the text of an argument, 'undefined' when there is none
ArgOrUndefined(args, k) == IF k <= Len(args) THEN args[k] ELSE S_UNDEFINED

\* args[0] || ''
ArgOrEmpty(args, k) == IF k <= Len(args) THEN args[k] ELSE <<>>

\* A faulty frac whose denominator is its second argument only
FracLatex_SecondArgument(args) ==
  <<"\\">> \o S_FRAC \o <<"{">> \o ArgOrEmpty(args, 1) \o <<"}", "{">>
    \o ArgOrEmpty(args, 2) \o <<"}">>

\* The frac branch of an EQUATION_FUNCTION, on its rendered arguments
FracLatex(args) ==
  <<"\\">> \o S_FRAC \o <<"{">> \o ArgOrEmpty(args, 1) \o <<"}", "{">>
    \o Join(Slice(args, 1)) \o <<"}">>

\* The EQUATION_FUNCTION branch of _extractNode, on its rendered arguments
EquationFunctionLatex(funcCodeRaw, args) ==
  LET funcCode == StripBackslashes(Trim(funcCodeRaw))
  IN  IF funcCode = S_FRAC THEN FracLatex(args)
      ELSE IF funcCode = <<"r", "o", "o", "t">>
           THEN IF Len(args) = 2 /\ args[2] # <<>>
                THEN <<"\\">> \o S_SQRT \o <<"[">> \o args[2] \o <<"]", "{">> \o args[1] \o <<"}">>
                ELSE <<"\\">> \o S_SQRT \o <<"{">> \o ArgOrUndefined(args, 1) \o <<"}">>
      ELSE IF funcCode \in {<<"s", "u", "p", "e", "r">>, <<"s", "u", "p", "e", "r", "s", "c", "r", "i", "p", "t">>}
           THEN <<"^", "{">> \o ArgOrEmpty(args, 1) \o <<"}">>
      ELSE IF funcCode \in {<<"s", "u", "b">>, <<"s", "u", "b", "s", "c", "r", "i", "p", "t">>}
           THEN <<"_", "{">> \o ArgOrEmpty(args, 1) \o <<"}">>
      ELSE IF funcCode = <<>> THEN Join(args)
      ELSE <<"\\">> \o funcCode
             \o Join([k \in 1..Len(args) |-> <<"{">> \o args[k] \o <<"}">>])

\* _extractNode of a child of an equation (context.inEquation is set)
RECURSIVE _extractNode(_)
_extractNode(child) ==
  CASE child.type = "TEXT" -> _escapeHtml(child.text)
    [] child.type = "EQUATION" ->
         <<"$">> \o Join([k \in 1..Len(child.children) |-> _extractNode(child.children[k])])
           \o <<"$">>
    [] child.type = "EQUATION_FUNCTION" ->
         EquationFunctionLatex(child.code,
           [k \in 1..Len(child.children) |-> _extractNode(child.children[k])])
    [] child.type = "EQUATION_SYMBOL" ->
         IF child.code # <<>> THEN _latexForEquationSymbolCode(child.code)
         ELSE _escapeHtml(child.text)
    [] OTHER -> <<>>

\* The HTML of the equations of an element
EquationsHtml(equations) ==
  Join([k \in 1..Len(equations) |-> _extractNode(equations[k])])

\* _extractHtml of a paragraph or list item: what it returns
_extractHtml(element, imageStore, questionId, stripLeadingCorrectMarker) ==
  _extractStyledText(element.text, element.indices, stripLeadingCorrectMarker)
    \o EquationsHtml(element.equations)
    \o ImagesHtml(element.inlineImages, 1, imageStore, questionId)

\* _extractHtml of a paragraph or list item: the image store it leaves
StoreAfterHtml(element, imageStore, questionId) ==
  StoreAfterImages(element.inlineImages, 1, imageStore, questionId)

\* _htmlListInfoFromGlyph
_htmlListInfoFromGlyph(glyphType) ==
  IF glyphType \in {"BULLET", "HOLLOW_BULLET", "SQUARE_BULLET"}
  THEN [tag |-> N_ul, attrs |-> <<>>]
  ELSE IF glyphType = "NUMBER"      THEN [tag |-> N_ol, attrs |-> S_TYPE \o <<"\"", "1", "\"">>]
  ELSE IF glyphType = "LATIN_UPPER" THEN [tag |-> N_ol, attrs |-> S_TYPE \o <<"\"", "A", "\"">>]
  ELSE IF glyphType = "LATIN_LOWER" THEN [tag |-> N_ol, attrs |-> S_TYPE \o <<"\"", "a", "\"">>]
  ELSE IF glyphType = "ROMAN_UPPER" THEN [tag |-> N_ol, attrs |-> S_TYPE \o <<"\"", "I", "\"">>]
  ELSE IF glyphType = "ROMAN_LOWER" THEN [tag |-> N_ol, attrs |-> S_TYPE \o <<"\"", "i", "\"">>]
  ELSE [tag |-> N_ul, attrs |-> <<>>]

\* _extractTableHtml; a table is its rows, a row its cells, a cell its blocks.
\* The image store is one object that every _extractHtml call of the table
\* writes to: the blocks of a cell, and cell after cell, row after row.
RECURSIVE StoreAfterCellBlocks(_, _, _, _)
RECURSIVE StoreAfterCells(_, _, _, _)

\* The cells of a table in the order the loops visit them
CellsOf(table) == Join(table.rows)

\* The image store after the cells of a table
StoreAfterTable(table, imageStore, questionId) ==
  StoreAfterCells(CellsOf(table), Len(CellsOf(table)), imageStore, questionId)

\* The image store after one block of a cell
StoreAfterCellBlock(block, imageStore, questionId) ==
  CASE block.type \in {"PARAGRAPH", "LIST_ITEM"} -> StoreAfterHtml(block, imageStore, questionId)
    [] block.type = "TABLE" -> StoreAfterTable(block, imageStore, questionId)
    [] OTHER -> imageStore

\* The image store after the blocks of one cell, from block k on
StoreAfterCellBlocks(blocks, k, imageStore, questionId) ==
  IF k > Len(blocks) THEN imageStore
  ELSE StoreAfterCellBlocks(blocks, k + 1,
                            StoreAfterCellBlock(blocks[k], imageStore, questionId), questionId)

\* The image store after the first n cells
StoreAfterCells(cells, n, imageStore, questionId) ==
  IF n = 0 THEN imageStore
  ELSE StoreAfterCellBlocks(cells[n], 1,
                            StoreAfterCells(cells, n - 1, imageStore, questionId), questionId)

\* CellBlocksHtml is the loop over the blocks of one cell from block k on, with
\* the list that is open at that point (listTag = Null: none).
RECURSIVE _extractTableHtml(_, _, _)
RECURSIVE CellBlocksHtml(_, _, _, _, _, _)
CellBlocksHtml(blocks, k, listTag, listAttrs, imageStore, questionId) ==
  LET closeList == IF listTag = Null THEN <<>> ELSE CloseTag(listTag)
  IN  IF k > Len(blocks) THEN closeList
      ELSE LET block == blocks[k]
               info  == _htmlListInfoFromGlyph(block.glyph)
               after == StoreAfterCellBlock(block, imageStore, questionId)
           IN  CASE block.type = "PARAGRAPH" ->
                      closeList \o _extractHtml(block, imageStore, questionId, FALSE) \o S_BR
                      \o CellBlocksHtml(blocks, k + 1, Null, <<>>, after, questionId)
                 [] block.type = "LIST_ITEM" ->
                      (IF listTag = Null \/ listTag # info.tag \/ listAttrs # info.attrs
                       THEN closeList \o OpenTag(info.tag, info.attrs)
                       ELSE <<>>)
                      \o OpenTag(N_li, <<>>) \o _extractHtml(block, imageStore, questionId, FALSE)
                        \o CloseTag(N_li)
                      \o CellBlocksHtml(blocks, k + 1, info.tag, info.attrs, after, questionId)
                 [] block.type = "TABLE" ->
                      closeList \o _extractTableHtml(block, imageStore, questionId)
                      \o CellBlocksHtml(blocks, k + 1, Null, <<>>, after, questionId)
                 [] OTHER -> CellBlocksHtml(blocks, k + 1, listTag, listAttrs, imageStore, questionId)

\* The number of cells in the rows before row r
RECURSIVE CellsBefore(_, _)
CellsBefore(table, r) ==
  IF r <= 1 THEN 0 ELSE CellsBefore(table, r - 1) + Len(table.rows[r - 1])

_extractTableHtml(table, imageStore, questionId) ==
  OpenTag(N_table, <<>>)
  \o Join([r \in 1..Len(table.rows) |->
        OpenTag(N_tr, <<>>)
        \o Join([c \in 1..Len(table.rows[r]) |->
              OpenTag(N_td, <<>>)
              \o CellBlocksHtml(table.rows[r][c], 1, Null, <<>>,
                                StoreAfterCells(CellsOf(table), CellsBefore(table, r) + c - 1,
                                                imageStore, questionId),
                                questionId)
              \o CloseTag(N_td)])
        \o CloseTag(N_tr)])
  \o CloseTag(N_table)

\* What a top-level block of question content or descriptions leaves in the store
StoreAfterBlock(b, imageStore, questionId) ==
  IF b.type = "TABLE" THEN StoreAfterTable(b, imageStore, questionId)
  ELSE StoreAfterHtml(b, imageStore, questionId)

----------------------------------------------------------------------------
(* The document: top-level blocks, as the host hands them to the parser *)

\* getListId() of the list items of this model: they belong to one list
L_one == <<"k", "i", "x", ".", "1">>

\* A paragraph or list item is its Text child followed by its equations and
\* its inline images
Paragraph(text) ==
  [type |-> "PARAGRAPH", text |-> text, indices |-> <<0>>, glyph |-> "NONE",
   rows |-> <<>>, inlineImages |-> <<>>,
   equations |-> <<>>, listId |-> Null]

ListItem(text, glyph) ==
  [type |-> "LIST_ITEM", text |-> text, indices |-> <<0>>, glyph |-> glyph,
   rows |-> <<>>, inlineImages |-> <<>>,
   equations |-> <<>>, listId |-> L_one]

ListItemWithImages(text, glyph, inlineImages) ==
  [type |-> "LIST_ITEM", text |-> text, indices |-> <<0>>, glyph |-> glyph,
   rows |-> <<>>, inlineImages |-> inlineImages,
   equations |-> <<>>, listId |-> L_one]

\* A paragraph or list item with formatting runs that start at indices
\* (getTextAttributeIndices), with equations and with inline images
StyledElement(type, text, indices, glyph, equations, inlineImages) ==
  [type |-> type, text |-> text, indices |-> indices, glyph |-> glyph,
   rows |-> <<>>, inlineImages |-> inlineImages,
   equations |-> equations, listId |-> IF type = "LIST_ITEM" THEN L_one ELSE Null]

Table(rows) ==
  [type |-> "TABLE", text |-> <<>>, indices |-> <<0>>, glyph |-> "NONE",
   rows |-> rows, inlineImages |-> <<>>,
   equations |-> <<>>, listId |-> Null]

\* An inline image: what getBlob(), getWidth() and getHeight() give (0: no size)
InlineImage(contentType, bytes, width, height) ==
  [blob |-> [contentType |-> contentType, bytes |-> bytes, name |-> Null],
   width |-> width, height |-> height]

I_jpeg == InlineImage("image/jpeg", "JPEG-1", 40, 0)

T_blue        == <<"b", "l", "u", "e">>
T_markedBlue  == S_MARKER \o <<" ">> \o T_blue
T_markedSpaced == <<" ">> \o S_MARKER \o <<" ", " ", "a", " ", " ", "b", " ">>
T_beginMCQ    == S_BEGIN \o S_MCQ \o <<"]">>
T_beginESSAY  == S_BEGIN \o S_ESSAY \o <<"]">>
T_beginExtra  == T_beginMCQ \o <<" ", "x">>
T_question    == S_QUESTION \o <<"]">>
T_question99  == S_QUESTION \o <<"#", "9", "9", "]", " ", "c", "a", "p">>
T_question1   == S_QUESTION \o <<"#", "1", "]">>
T_questionBad == S_QUESTION \o <<"#", "]">>
T_options     == <<" ">> \o S_OPTIONS \o <<" ">>

\* The blocks a document is made of in this model
Blocks ==
  { Paragraph(<<>>), Paragraph(T_beginMCQ), Paragraph(T_beginESSAY),
    Paragraph(T_beginExtra), Paragraph(T_question), Paragraph(T_question99),
    Paragraph(T_question1), Paragraph(T_questionBad), Paragraph(T_options),
    Paragraph(S_DESCRIPTIONS), Paragraph(T_blue),
    ListItem(<<>>, "BULLET"), ListItem(T_beginESSAY, "BULLET"),
    ListItem(S_MARKER, "BULLET"), ListItem(T_markedBlue, "LATIN_UPPER"),
    ListItem(T_blue, "LATIN_UPPER"),
    ListItemWithImages(T_blue, "LATIN_UPPER", <<I_jpeg>>),
    ListItem(T_markedSpaced, "LATIN_UPPER"),
    Table(<< << <<Paragraph(T_blue)>> >> >>) }

IsTextBlock(b) == b.type \in {"PARAGRAPH", "LIST_ITEM"}

\* element.asParagraph().getText().trim() / element.asListItem().getText().trim();
\* the main loop leaves text = '' for every other element type
BlockText(b) == IF IsTextBlock(b) THEN Trim(b.text) ELSE <<>>

----------------------------------------------------------------------------
(* The quiz model *)

NoIndex      == -1
NoQuestion   == [none |-> TRUE]
NoError      == [kind |-> "none", mentionsLine |-> FALSE, line |-> 0]
NoModel      == [none |-> TRUE]
NoValidation == [none |-> TRUE]

\* new Error(...): the kind of violation, and the line the message names (if any)
ErrorAtLine(kind, line) == [kind |-> kind, mentionsLine |-> TRUE, line |-> line]
ErrorNoLine(kind)       == [kind |-> kind, mentionsLine |-> FALSE, line |-> 0]

\* _createQuestionObj
_createQuestionObj(num, line) ==
  [num |-> num, id |-> <<"q">> \o ToStr(num), line |-> line,
   content |-> <<>>, contentHtmlParts |-> <<>>,
   descriptions |-> Null, descriptionHtmlParts |-> <<>>,
   hasOptionsTag |-> FALSE, optionsTagLine |-> 0,
   hasDescriptionsTag |-> FALSE, descriptionsTagLine |-> 0,
   options |-> <<>>,
   _listOpen |-> FALSE, _listTag |-> Null, _listAttrs |-> <<>>,
   _descListOpen |-> FALSE, _descListTag |-> Null, _descListAttrs |-> <<>>]

\* closeQuestionListIfOpen, on a question that exists
closeQuestionListIfOpen(q) ==
  IF ~q._listOpen THEN q
  ELSE [q EXCEPT !.contentHtmlParts = Append(@, CloseTag(q._listTag)),
                 !._listOpen = FALSE, !._listTag = Null, !._listAttrs = <<>>]

\* closeDescriptionListIfOpen, on a question that exists
closeDescriptionListIfOpen(q) ==
  IF ~q._descListOpen THEN q
  ELSE [q EXCEPT !.descriptionHtmlParts = Append(@, CloseTag(q._descListTag)),
                 !._descListOpen = FALSE, !._descListTag = Null, !._descListAttrs = <<>>]

CloseLists(q) == closeDescriptionListIfOpen(closeQuestionListIfOpen(q))

\* The number given to a new question: result.questions.length + 1
NextQuestionNum_FromLabel(closed, tag) ==
  IF tag.hasLabel THEN tag.labelNumber ELSE Len(closed) + 1

NextQuestionNum(closed, tag) == Len(closed) + 1

\* The checks of an [OPTIONS] block, in the order of the code: "ok" or the error
OptionsTagCheck_NoEssayRule(q, qt) ==
  IF q = NoQuestion THEN "OptionsOutsideQuestion"
  ELSE IF q.hasOptionsTag THEN "DuplicateOptions"
  ELSE "ok"

OptionsTagCheck(q, qt) ==
  IF q = NoQuestion THEN "OptionsOutsideQuestion"
  ELSE IF qt = S_ESSAY THEN "OptionsInEssay"
  ELSE IF q.hasOptionsTag THEN "DuplicateOptions"
  ELSE "ok"

\* The checks of a [DESCRIPTIONS] block, in the order of the code
DescriptionsTagCheck_AnyState(q, qt, st) ==
  IF q = NoQuestion THEN "DescriptionsOutsideQuestion"
  ELSE IF q.hasDescriptionsTag THEN "DuplicateDescriptions"
  ELSE "ok"

DescriptionsTagCheck(q, qt, st) ==
  IF q = NoQuestion THEN "DescriptionsOutsideQuestion"
  ELSE IF qt = S_MCQ /\ st # "READING_OPTIONS" THEN "DescriptionsBeforeOptions"
  ELSE IF qt = S_ESSAY /\ st # "READING_QUESTION" THEN "DescriptionsNotAfterContent"
  ELSE IF q.hasDescriptionsTag THEN "DuplicateDescriptions"
  ELSE "ok"

\* AccumulateBlock with a paragraph that leaves the open list open
AccumulateBlock_ParagraphKeepsList(acc, b, imageStore, questionId) ==
  LET closed == IF acc.open
                THEN [parts |-> Append(acc.parts, CloseTag(acc.tag)),
                      open |-> FALSE, tag |-> Null, attrs |-> <<>>]
                ELSE acc
      html   == _extractHtml(b, imageStore, questionId, FALSE)
      info   == _htmlListInfoFromGlyph(b.glyph)
  IN  CASE b.type = "PARAGRAPH" ->
             IF html # <<>>
             THEN [acc EXCEPT !.parts = Append(@, OpenTag(N_p, <<>>) \o html \o CloseTag(N_p))]
             ELSE acc
        [] b.type = "TABLE" ->
             [closed EXCEPT !.parts = Append(@, _extractTableHtml(b, imageStore, questionId))]
        [] b.type = "LIST_ITEM" ->
             LET opened == IF ~acc.open \/ acc.tag # info.tag \/ acc.attrs # info.attrs
                           THEN [parts |-> Append(closed.parts, OpenTag(info.tag, info.attrs)),
                                 open |-> TRUE, tag |-> info.tag, attrs |-> info.attrs]
                           ELSE acc
             IN  [opened EXCEPT !.parts =
                    Append(@, OpenTag(N_li, <<>>) \o html \o CloseTag(N_li))]
        [] OTHER -> acc

\* The content branch shared by READING_QUESTION and READING_DESCRIPTIONS: what
\* one block adds to an HTML buffer with its open list (acc: parts, open, tag, attrs)
AccumulateBlock(acc, b, imageStore, questionId) ==
  LET closed == IF acc.open
                THEN [parts |-> Append(acc.parts, CloseTag(acc.tag)),
                      open |-> FALSE, tag |-> Null, attrs |-> <<>>]
                ELSE acc
      html   == _extractHtml(b, imageStore, questionId, FALSE)
      info   == _htmlListInfoFromGlyph(b.glyph)
  IN  CASE b.type = "PARAGRAPH" ->
             IF html # <<>>
             THEN [closed EXCEPT !.parts = Append(@, OpenTag(N_p, <<>>) \o html \o CloseTag(N_p))]
             ELSE closed
        [] b.type = "TABLE" ->
             [closed EXCEPT !.parts = Append(@, _extractTableHtml(b, imageStore, questionId))]
        [] b.type = "LIST_ITEM" ->
             LET opened == IF ~acc.open \/ acc.tag # info.tag \/ acc.attrs # info.attrs
                           THEN [parts |-> Append(closed.parts, OpenTag(info.tag, info.attrs)),
                                 open |-> TRUE, tag |-> info.tag, attrs |-> info.attrs]
                           ELSE acc
             IN  [opened EXCEPT !.parts =
                    Append(@, OpenTag(N_li, <<>>) \o html \o CloseTag(N_li))]
        [] OTHER -> acc

ReadQuestionBlock(q, b, imageStore) ==
  LET r == AccumulateBlock([parts |-> q.contentHtmlParts, open |-> q._listOpen,
                            tag |-> q._listTag, attrs |-> q._listAttrs], b,
                           imageStore, q.id)
  IN  [q EXCEPT !.contentHtmlParts = r.parts, !._listOpen = r.open,
                !._listTag = r.tag, !._listAttrs = r.attrs]

ReadDescriptionsBlock(q, b, imageStore) ==
  LET r == AccumulateBlock([parts |-> q.descriptionHtmlParts, open |-> q._descListOpen,
                            tag |-> q._descListTag, attrs |-> q._descListAttrs], b,
                           imageStore, q.id)
  IN  [q EXCEPT !.descriptionHtmlParts = r.parts, !._descListOpen = r.open,
                !._descListTag = r.tag, !._descListAttrs = r.attrs]

\* The blocks whose HTML is extracted, and whose images are stored, in a state
ReadsHtml(st, b) ==
  \/ st \in {"READING_QUESTION", "READING_DESCRIPTIONS"}
       /\ b.type \in {"PARAGRAPH", "LIST_ITEM", "TABLE"}
  \/ st = "READING_OPTIONS" /\ b.type = "LIST_ITEM"

\* A faulty option whose choice text keeps the white space of the list item
MakeOption_NoCollapse(q, item, line, imageStore) ==
  LET rawText   == Trim(item.text)
      isCorrect == HasLeadingMarker(rawText)
  IN  [id |-> <<"o", "p", "t", "_">> \o ToStr(Len(q.options)),
       text |-> _extractHtml(item, imageStore, q.id, isCorrect),
       choiceText |-> Trim(StripLeadingMarker(rawText)),
       isCorrect |-> isCorrect,
       line |-> line]

\* The option a list item becomes in READING_OPTIONS
MakeOption(q, item, line, imageStore) ==
  LET rawText   == Trim(item.text)
      isCorrect == HasLeadingMarker(rawText)
  IN  [id |-> <<"o", "p", "t", "_">> \o ToStr(Len(q.options)),
       text |-> _extractHtml(item, imageStore, q.id, isCorrect),
       choiceText |-> CollapseSpaces(Trim(StripLeadingMarker(rawText))),
       isCorrect |-> isCorrect,
       line |-> line]

ReadOptionsBlock(q, b, line, imageStore) ==
  IF b.type = "LIST_ITEM"
  THEN [q EXCEPT !.options = Append(@, MakeOption(q, b, line, imageStore))]
  ELSE q

\* result.questions.forEach(q => { q.content = ...; q.descriptions = ... })
Finalize(q) ==
  LET desc == Join(q.descriptionHtmlParts)
  IN  [q EXCEPT !.content = Join(q.contentHtmlParts),
                !.descriptions = IF desc # <<>> THEN desc ELSE Null]

----------------------------------------------------------------------------
(* QuizValidator.validate *)

\* A list property the object does not have (undefined)
Absent == <<[absent |-> TRUE]>>

\* Length of the match of /<\s*br\s*\/?\s*>/i at the start of s, 0 when none
BrMatchLen(s) ==
  IF s = <<>> \/ Head(s) # "<" THEN 0
  ELSE LET a == TrimStart(Tail(s))
       IN  IF Len(a) < 2 \/ a[1] \notin {"b", "B"} \/ a[2] \notin {"r", "R"} THEN 0
           ELSE LET b == TrimStart(Slice(a, 2))
                    c == TrimStart(IF b # <<>> /\ Head(b) = "/" THEN Tail(b) ELSE b)
                IN  IF c # <<>> /\ Head(c) = ">" THEN Len(s) - Len(c) + 1 ELSE 0

\* replace(/<\s*br\s*\/?\s*>/gi, ' ')
RECURSIVE BrToSpace(_)
BrToSpace(s) ==
  IF s = <<>> THEN <<>>
  ELSE IF BrMatchLen(s) > 0 THEN <<" ">> \o BrToSpace(Slice(s, BrMatchLen(s)))
  ELSE <<Head(s)>> \o BrToSpace(Tail(s))

\* Length of the match of /<[^>]+>/ at the start of s, 0 when none
TagMatchLen(s) ==
  IF s = <<>> \/ Head(s) # "<" \/ \A k \in 1..Len(s) : s[k] # ">" THEN 0
  ELSE LET close == CHOOSE k \in 1..Len(s) :
                      s[k] = ">" /\ \A j \in 1..(k - 1) : s[j] # ">"
       IN  IF close >= 3 THEN close ELSE 0

\* replace(/<[^>]+>/g, '')
RECURSIVE RemoveTags(_)
RemoveTags(s) ==
  IF s = <<>> THEN <<>>
  ELSE IF TagMatchLen(s) > 0 THEN RemoveTags(Slice(s, TagMatchLen(s)))
  ELSE <<Head(s)>> \o RemoveTags(Tail(s))

\* replace(/pat/g, rep) for a literal pattern
RECURSIVE ReplaceAll(_, _, _)
ReplaceAll(s, pat, rep) ==
  IF s = <<>> THEN <<>>
  ELSE IF StartsWith(s, pat) THEN rep \o ReplaceAll(Slice(s, Len(pat)), pat, rep)
  ELSE <<Head(s)>> \o ReplaceAll(Tail(s), pat, rep)

\* _stripHtml_
_stripHtml_(html) ==
  LET s0 == IF html = Null THEN <<>> ELSE html
      s1 == RemoveTags(BrToSpace(s0))
      s2 == ReplaceAll(s1, <<"&", "n", "b", "s", "p", ";">>, <<" ">>)
      s3 == ReplaceAll(s2, <<"&", "a", "m", "p", ";">>, <<"&">>)
      s4 == ReplaceAll(s3, <<"&", "l", "t", ";">>, <<"<">>)
      s5 == ReplaceAll(s4, <<"&", "g", "t", ";">>, <<">">>)
      s6 == ReplaceAll(s5, <<"&", "q", "u", "o", "t", ";">>, <<"\"">>)
  IN  ReplaceAll(s6, <<"&", "#", "3", "9", ";">>, <<"'">>)

\* A faulty _normalizeOptionLine_ that compares the text as it was written
_normalizeOptionLine_Raw(option) ==
  IF option.choiceText # Null THEN option.choiceText
  ELSE IF option.text # Null THEN _stripHtml_(option.text)
  ELSE <<>>

\* _normalizeOptionLine_: choiceText when it is a string (Null: it is not),
\* else the option's text without its HTML
_normalizeOptionLine_(option) ==
  LET base == IF option.choiceText # Null THEN option.choiceText
              ELSE IF option.text # Null THEN _stripHtml_(option.text)
              ELSE <<>>
  IN  CollapseSpaces(Trim(base))

\* !q.content || q.content.trim() === ''
ContentIsEmpty(q) == q.content = Null \/ Trim(q.content) = <<>>

\* q.options ? q.options.length : 0
OptionCount(q) == IF q.options = Absent THEN 0 ELSE Len(q.options)

CorrectCount(q) == Cardinality({k \in 1..Len(q.options) : q.options[k].isCorrect})

\* The duplicate check of one question: an error for every option whose key is
\* not empty and was seen at an earlier option
DuplicateErrors_NoSkip(q) ==
  LET key(k) == _normalizeOptionLine_(q.options[k])
      dup(k) == \E j \in 1..(k - 1) : key(j) = key(k)
      idx    == {k \in 1..Len(q.options) : dup(k)}
      F[k \in 0..Len(q.options)] ==
        IF k = 0 THEN <<>>
        ELSE IF k \in idx
             THEN Append(F[k - 1], [kind |-> "DuplicateOptions", num |-> q.num,
                                    line |-> IF q.options[k].line # 0
                                             THEN q.options[k].line ELSE q.line,
                                    count |-> 0, key |-> key(k)])
             ELSE F[k - 1]
  IN  F[Len(q.options)]

DuplicateErrors(q) ==
  LET key(k) == _normalizeOptionLine_(q.options[k])
      dup(k) == key(k) # <<>> /\ \E j \in 1..(k - 1) : key(j) = key(k)
      idx    == {k \in 1..Len(q.options) : dup(k)}
      F[k \in 0..Len(q.options)] ==
        IF k = 0 THEN <<>>
        ELSE IF k \in idx
             THEN Append(F[k - 1], [kind |-> "DuplicateOptions", num |-> q.num,
                                    line |-> IF q.options[k].line # 0
                                             THEN q.options[k].line ELSE q.line,
                                    count |-> 0, key |-> key(k)])
             ELSE F[k - 1]
  IN  F[Len(q.options)]

ValidationError(kind, q, line, count) ==
  [kind |-> kind, num |-> q.num, line |-> line, count |-> count, key |-> <<>>]

\* 1. Check Content
\* A faulty check that never finds the content empty
ContentErrors_Never(q) == <<>>

ContentErrors(q) ==
  IF ContentIsEmpty(q) THEN <<ValidationError("ContentEmpty", q, q.line, 0)>> ELSE <<>>

\* The ESSAY branch: [OPTIONS] is not allowed
\* A faulty check that looks at the tag only
EssayErrors_TagOnly(q) ==
  IF q.hasOptionsTag
  THEN <<ValidationError("OptionsNotAllowedForEssay", q, q.optionsTagLine, 0)>>
  ELSE <<>>

EssayErrors(q) ==
  LET line == IF q.optionsTagLine # 0 THEN q.optionsTagLine
              ELSE IF OptionCount(q) > 0 /\ q.options[1].line # 0
                   THEN q.options[1].line
                   ELSE q.line
  IN  IF q.hasOptionsTag \/ OptionCount(q) > 0
      THEN <<ValidationError("OptionsNotAllowedForEssay", q, line, 0)>>
      ELSE <<>>

\* MCQ: missing [OPTIONS]
\* A faulty check that never misses [OPTIONS]
MissingOptionsErrors_Never(q) == <<>>

\* A faulty check that is silent when the question has options
MissingOptionsErrors_OnlyWithoutOptions(q) ==
  IF ~q.hasOptionsTag /\ OptionCount(q) = 0
  THEN <<ValidationError("MissingOptions", q, q.line, 0)>> ELSE <<>>

MissingOptionsErrors(q) ==
  IF ~q.hasOptionsTag THEN <<ValidationError("MissingOptions", q, q.line, 0)>> ELSE <<>>

\* 2. Check Options Count
OptionCountErrors(q) ==
  IF OptionCount(q) < 2
  THEN <<ValidationError("TooFewOptions", q,
            IF q.optionsTagLine # 0 THEN q.optionsTagLine ELSE q.line,
            OptionCount(q))>>
  ELSE <<>>

\* 3. Check Correct Answer
\* A faulty check that accepts several correct answers
CorrectCountErrors_AtLeastOne(q) ==
  IF CorrectCount(q) = 0
  THEN <<ValidationError("NoCorrectAnswer", q, q.line, 0)>> ELSE <<>>

CorrectCountErrors(q) ==
  IF CorrectCount(q) = 0
  THEN <<ValidationError("NoCorrectAnswer", q, q.line, 0)>>
  ELSE IF CorrectCount(q) > 1
       THEN <<ValidationError("MultipleCorrectAnswers", q, q.line, CorrectCount(q))>>
       ELSE <<>>

\* The errors validate pushes for one question, in the order of the code
QuestionErrors(q, qt) ==
  IF qt = S_ESSAY THEN ContentErrors(q) \o EssayErrors(q)
  ELSE ContentErrors(q) \o MissingOptionsErrors(q) \o OptionCountErrors(q)
         \o CorrectCountErrors(q) \o DuplicateErrors(q)

\* A faulty check that also warns about the options of an ESSAY question
QuestionWarnings_EssayToo(q, qt) ==
  LET n == OptionCount(q)
      F[k \in 0..n] ==
        IF k = 0 THEN <<>>
        ELSE IF q.options[k].text = Null \/ Trim(q.options[k].text) = <<>>
             THEN Append(F[k - 1], [kind |-> "OptionTextEmpty", num |-> q.num,
                                    option |-> k, line |-> q.options[k].line])
             ELSE F[k - 1]
  IN  F[n]

\* The warnings validate pushes for one question (none for an ESSAY question:
\* the ESSAY branch returns before the empty-option check)
QuestionWarnings(q, qt) ==
  LET F[k \in 0..Len(q.options)] ==
        IF k = 0 THEN <<>>
        ELSE IF q.options[k].text = Null \/ Trim(q.options[k].text) = <<>>
             THEN Append(F[k - 1], [kind |-> "OptionTextEmpty", num |-> q.num,
                                    option |-> k, line |-> q.options[k].line])
             ELSE F[k - 1]
  IN  IF qt = S_ESSAY THEN <<>> ELSE F[Len(q.options)]

\* parseResult && parseResult.quizType
QuizTypeOf(parseResult) ==
  IF parseResult = NoModel THEN Null ELSE parseResult.quizType

\* parseResult && parseResult.questions
QuestionsOf(parseResult) ==
  IF parseResult = NoModel THEN Absent ELSE parseResult.questions

\* validate stops at the type check or at the question-list check
ShortCircuits(parseResult) ==
  \/ QuizTypeOf(parseResult) \notin {S_MCQ, S_ESSAY}
  \/ QuestionsOf(parseResult) \in {Absent, <<>>}

\* q.options.filter(...) on an MCQ question without an options list is a
\* TypeError: validate returns nothing
ValidateThrows(parseResult) ==
  /\ ~ShortCircuits(parseResult)
  /\ parseResult.quizType = S_MCQ
  /\ \E k \in 1..Len(parseResult.questions) :
       parseResult.questions[k].options = Absent

\* A faulty validate that goes on to the content check after a fatal error
validate_NoEarlyReturn(parseResult) ==
  LET qt == QuizTypeOf(parseResult)
      qs == IF QuestionsOf(parseResult) = Absent THEN <<>> ELSE QuestionsOf(parseResult)
      fatal == [kind |-> IF qt # S_MCQ /\ qt # S_ESSAY
                         THEN "InvalidQuizType" ELSE "NoQuestions",
                num |-> 0, line |-> 0, count |-> 0, key |-> <<>>]
      errors   == Join([k \in 1..Len(qs) |-> QuestionErrors(qs[k], qt)])
      warnings == Join([k \in 1..Len(qs) |-> QuestionWarnings(qs[k], qt)])
  IN  IF ShortCircuits(parseResult)
      THEN [isValid |-> FALSE, warnings |-> <<>>,
            errors |-> <<fatal>> \o Join([k \in 1..Len(qs) |-> ContentErrors(qs[k])])]
      ELSE [isValid |-> errors = <<>>, errors |-> errors, warnings |-> warnings]

\* A faulty validate for which a warning is enough to make the model invalid
validate_WarningsCount(parseResult) ==
  LET qt == QuizTypeOf(parseResult)
      qs == QuestionsOf(parseResult)
      errors   == Join([k \in 1..Len(qs) |-> QuestionErrors(qs[k], qt)])
      warnings == Join([k \in 1..Len(qs) |-> QuestionWarnings(qs[k], qt)])
  IN  IF qt # S_MCQ /\ qt # S_ESSAY
      THEN [isValid |-> FALSE, warnings |-> <<>>,
            errors |-> <<[kind |-> "InvalidQuizType", num |-> 0, line |-> 0,
                          count |-> 0, key |-> <<>>]>>]
      ELSE IF qs \in {Absent, <<>>}
      THEN [isValid |-> FALSE, warnings |-> <<>>,
            errors |-> <<[kind |-> "NoQuestions", num |-> 0, line |-> 0,
                          count |-> 0, key |-> <<>>]>>]
      ELSE [isValid |-> errors = <<>> /\ warnings = <<>>,
            errors |-> errors, warnings |-> warnings]

\* QuizValidator.validate, when it returns
validate(parseResult) ==
  LET qt == QuizTypeOf(parseResult)
      qs == QuestionsOf(parseResult)
      errors   == Join([k \in 1..Len(qs) |-> QuestionErrors(qs[k], qt)])
      warnings == Join([k \in 1..Len(qs) |-> QuestionWarnings(qs[k], qt)])
  IN  IF qt # S_MCQ /\ qt # S_ESSAY
      THEN [isValid |-> FALSE, warnings |-> <<>>,
            errors |-> <<[kind |-> "InvalidQuizType", num |-> 0, line |-> 0,
                          count |-> 0, key |-> <<>>]>>]
      ELSE IF qs \in {Absent, <<>>}
      THEN [isValid |-> FALSE, warnings |-> <<>>,
            errors |-> <<[kind |-> "NoQuestions", num |-> 0, line |-> 0,
                          count |-> 0, key |-> <<>>]>>]
      ELSE [isValid |-> errors = <<>>, errors |-> errors, warnings |-> warnings]

----------------------------------------------------------------------------
(* QuizParser.parse, one action per way an iteration of its loops can go *)

Init ==
  /\ body = <<>>
  /\ numChildren \in 0..MaxBlocks
  /\ pc = "header"
  /\ i = 0
  /\ quizType = Null
  /\ questions = <<>>
  /\ beginIndex = NoIndex
  /\ beginLine = 0
  /\ currentQuestion = NoQuestion
  /\ state = "WAITING"
  /\ err = NoError
  /\ returned = NoModel
  /\ validation = NoValidation
  /\ images = <<>>
  /\ exports = <<>>
  /\ edits = <<>>

\* body.getChild(i): a child fetched before is the same child again
Children == IF i < Len(body) THEN {body[i + 1]} ELSE Blocks

Fetched(b) == IF i < Len(body) THEN body ELSE Append(body, b)

\* throw new Error(...): parse stops where it is and returns nothing
Throw(e) ==
  /\ pc' = "thrown"
  /\ err' = e
  /\ UNCHANGED <<numChildren, i, quizType, questions, beginIndex, beginLine,
                 currentQuestion, state, returned, validation, images, exports, edits>>

\* Header scan: an empty paragraph or list item is skipped
HeaderEmpty(b) ==
  /\ pc = "header" /\ i < numChildren
  /\ IsTextBlock(b) /\ Trim(b.text) = <<>>
  /\ body' = Fetched(b)
  /\ i' = i + 1
  /\ UNCHANGED <<numChildren, pc, quizType, questions, beginIndex, beginLine,
                 currentQuestion, state, err, returned, validation, images, exports, edits>>

\* Header scan: the first non-empty line is the header; the main loop starts
HeaderFound(b) ==
  /\ pc = "header" /\ i < numChildren
  /\ IsTextBlock(b) /\ Trim(b.text) # <<>>
  /\ _parseBeginTag(Trim(b.text)) # Null
  /\ body' = Fetched(b)
  /\ quizType' = _parseBeginTag(Trim(b.text))
  /\ beginIndex' = i
  /\ beginLine' = i + 1
  /\ pc' = "main"
  /\ i' = 0
  /\ UNCHANGED <<numChildren, questions, currentQuestion, state, err, returned, validation, images, exports, edits>>

\* Header scan: the first non-empty line is something else
HeaderMismatch(b) ==
  /\ pc = "header" /\ i < numChildren
  /\ IsTextBlock(b) /\ Trim(b.text) # <<>>
  /\ _parseBeginTag(Trim(b.text)) = Null
  /\ body' = Fetched(b)
  /\ Throw(ErrorNoLine("MissingHeader"))

\* Header scan: an element that is neither paragraph nor list item
HeaderOtherElement(b) ==
  /\ pc = "header" /\ i < numChildren
  /\ ~IsTextBlock(b)
  /\ body' = Fetched(b)
  /\ Throw(ErrorNoLine("MissingHeader"))

\* Header scan: the document ended and no header was found
HeaderAbsent ==
  /\ pc = "header" /\ i = numChildren
  /\ quizType = Null
  /\ body' = body
  /\ Throw(ErrorNoLine("MissingHeader"))

InMainLoop == pc = "main" /\ i < numChildren /\ i # beginIndex

\* Main loop: the header block itself is skipped
MainSkipHeader ==
  /\ pc = "main" /\ i < numChildren /\ i = beginIndex
  /\ i' = i + 1
  /\ UNCHANGED <<body, numChildren, pc, quizType, questions, beginIndex, beginLine,
                 currentQuestion, state, err, returned, validation, images, exports, edits>>

\* Main loop: a [BEGIN# line that is not the header
MainBeginElsewhere(b) ==
  /\ InMainLoop
  /\ IsBeginElsewhere(BlockText(b))
  /\ body' = Fetched(b)
  /\ Throw(ErrorAtLine("BeginPlacement", i + 1))

\* Main loop: a question tag closes the open question and starts the next
MainQuestionTag(b) ==
  LET tag    == _parseQuestionTag(BlockText(b))
      closed == IF currentQuestion # NoQuestion
                THEN Append(questions, CloseLists(currentQuestion))
                ELSE questions
      fresh  == _createQuestionObj(NextQuestionNum(closed, tag), i + 1)
  IN  /\ InMainLoop
      /\ ~IsBeginElsewhere(BlockText(b))
      /\ tag.kind = "tag"
      /\ body' = Fetched(b)
      /\ questions' = closed
      /\ currentQuestion' =
           IF tag.inlineText # <<>>
           THEN [fresh EXCEPT !.contentHtmlParts =
                   <<OpenTag(N_p, <<>>) \o _escapeHtml(tag.inlineText) \o CloseTag(N_p)>>]
           ELSE fresh
      /\ state' = "READING_QUESTION"
      /\ i' = i + 1
      /\ UNCHANGED <<numChildren, pc, quizType, beginIndex, beginLine, err,
                     returned, validation, images, exports, edits>>

\* Main loop: a [QUESTION... line of another form
MainQuestionTagInvalid(b) ==
  /\ InMainLoop
  /\ ~IsBeginElsewhere(BlockText(b))
  /\ _parseQuestionTag(BlockText(b)).kind = "throw"
  /\ body' = Fetched(b)
  /\ Throw(ErrorNoLine("InvalidQuestionTag"))

NotQuestionTag(b) ==
  /\ ~IsBeginElsewhere(BlockText(b))
  /\ _parseQuestionTag(BlockText(b)).kind = "null"

\* Main loop: [OPTIONS] accepted
MainOptionsTag(b) ==
  /\ InMainLoop
  /\ NotQuestionTag(b)
  /\ IsOptionsTag(BlockText(b))
  /\ OptionsTagCheck(currentQuestion, quizType) = "ok"
  /\ body' = Fetched(b)
  /\ currentQuestion' =
       CloseLists([currentQuestion EXCEPT !.hasOptionsTag = TRUE,
                                          !.optionsTagLine = i + 1])
  /\ state' = "READING_OPTIONS"
  /\ i' = i + 1
  /\ UNCHANGED <<numChildren, pc, quizType, questions, beginIndex, beginLine, err,
                 returned, validation, images, exports, edits>>

\* Main loop: [OPTIONS] rejected
MainOptionsTagRejected(b) ==
  /\ InMainLoop
  /\ NotQuestionTag(b)
  /\ IsOptionsTag(BlockText(b))
  /\ OptionsTagCheck(currentQuestion, quizType) # "ok"
  /\ body' = Fetched(b)
  /\ Throw(ErrorAtLine(OptionsTagCheck(currentQuestion, quizType), i + 1))

\* Main loop: [DESCRIPTIONS] accepted
MainDescriptionsTag(b) ==
  /\ InMainLoop
  /\ NotQuestionTag(b)
  /\ ~IsOptionsTag(BlockText(b))
  /\ IsDescriptionsTag(BlockText(b))
  /\ DescriptionsTagCheck(currentQuestion, quizType, state) = "ok"
  /\ body' = Fetched(b)
  /\ currentQuestion' =
       CloseLists([currentQuestion EXCEPT !.hasDescriptionsTag = TRUE,
                                          !.descriptionsTagLine = i + 1])
  /\ state' = "READING_DESCRIPTIONS"
  /\ i' = i + 1
  /\ UNCHANGED <<numChildren, pc, quizType, questions, beginIndex, beginLine, err,
                 returned, validation, images, exports, edits>>

\* Main loop: [DESCRIPTIONS] rejected
MainDescriptionsTagRejected(b) ==
  /\ InMainLoop
  /\ NotQuestionTag(b)
  /\ ~IsOptionsTag(BlockText(b))
  /\ IsDescriptionsTag(BlockText(b))
  /\ DescriptionsTagCheck(currentQuestion, quizType, state) # "ok"
  /\ body' = Fetched(b)
  /\ Throw(ErrorAtLine(DescriptionsTagCheck(currentQuestion, quizType, state), i + 1))

IsContent(b) ==
  /\ NotQuestionTag(b)
  /\ ~IsOptionsTag(BlockText(b))
  /\ ~IsDescriptionsTag(BlockText(b))

\* Main loop: content before the first question is ignored
MainNoQuestion(b) ==
  /\ InMainLoop
  /\ IsContent(b)
  /\ currentQuestion = NoQuestion
  /\ body' = Fetched(b)
  /\ i' = i + 1
  /\ UNCHANGED <<numChildren, pc, quizType, questions, beginIndex, beginLine,
                 currentQuestion, state, err, returned, validation, images, exports, edits>>

\* Main loop: content of the open question, by state
MainContent(b) ==
  /\ InMainLoop
  /\ IsContent(b)
  /\ currentQuestion # NoQuestion
  /\ body' = Fetched(b)
  /\ currentQuestion' =
       CASE state = "READING_QUESTION"     -> ReadQuestionBlock(currentQuestion, b, images)
         [] state = "READING_OPTIONS"      -> ReadOptionsBlock(currentQuestion, b, i + 1, images)
         [] state = "READING_DESCRIPTIONS" -> ReadDescriptionsBlock(currentQuestion, b, images)
         [] OTHER                          -> currentQuestion
  /\ images' = IF ReadsHtml(state, b)
               THEN StoreAfterBlock(b, images, currentQuestion.id) ELSE images
  /\ i' = i + 1
  /\ UNCHANGED <<numChildren, pc, quizType, questions, beginIndex, beginLine,
                 state, err, returned, validation, exports, edits>>

\* A faulty end of input that returns the questions pushed so far only
Finish_DropsOpenQuestion ==
  LET fin == [k \in 1..Len(questions) |-> Finalize(questions[k])]
  IN  /\ pc = "main" /\ i = numChildren
      /\ questions' = fin
      /\ returned' = [quizType |-> quizType, questions |-> fin, images |-> images]
      /\ currentQuestion' = currentQuestion
      /\ pc' = "returned"
      /\ UNCHANGED <<body, numChildren, i, quizType, beginIndex, beginLine,
                     state, err, validation, images, exports, edits>>

\* End of input: the open question is pushed, every question finalized, the model returned
Finish ==
  LET all == IF currentQuestion # NoQuestion
             THEN Append(questions, CloseLists(currentQuestion))
             ELSE questions
      fin == [k \in 1..Len(all) |-> Finalize(all[k])]
  IN  /\ pc = "main" /\ i = numChildren
      /\ questions' = fin
      /\ returned' = [quizType |-> quizType, questions |-> fin, images |-> images]
      /\ currentQuestion' =    \* the same object as the last question pushed
           IF currentQuestion # NoQuestion THEN fin[Len(fin)] ELSE currentQuestion
      /\ pc' = "returned"
      /\ UNCHANGED <<body, numChildren, i, quizType, beginIndex, beginLine,
                     state, err, validation, images, exports, edits>>

\* validateAndShowResults: validate runs on what parse returned
Validate ==
  /\ pc = "returned"
  /\ ~ValidateThrows(returned)
  /\ validation' = validate(returned)
  /\ pc' = "validated"
  /\ UNCHANGED <<body, numChildren, i, quizType, questions, beginIndex, beginLine,
                 currentQuestion, state, err, returned, images, exports, edits>>

----------------------------------------------------------------------------
(* QuizExporter.generateZip and exportQuiz *)

S_IMAGES    == <<"i", "m", "a", "g", "e", "s", "/">>
S_QUIZ_JSON == <<"q", "u", "i", "z", ".", "j", "s", "o", "n">>
S_ZIP_NAME  == <<"q", "u", "i", "z", "_", "e", "x", "p", "o", "r", "t", ".", "z", "i", "p">>

\* new Date().toISOString(): the instants an export may read from the clock
Timestamps == 1..MaxTime

\* (typeof q.descriptions === 'string' && q.descriptions.trim() !== '') ? q.descriptions : null
ExportDescriptions(q) ==
  IF q.descriptions # Null /\ Trim(q.descriptions) # <<>> THEN q.descriptions ELSE Null

\* The entry of exportJson.questions for a question
ExportQuestion(q) ==
  [id |-> q.id,
   content |-> q.content,
   descriptions |-> ExportDescriptions(q),
   options |-> [k \in 1..Len(q.options) |->
                  [content |-> q.options[k].text, is_correct |-> q.options[k].isCorrect]]]

\* exportJson; JSON.stringify writes every one of these properties, so that the
\* text of quiz.json is modelled by the value it encodes
ExportJson(parseResult, now) ==
  [metadata |-> [generated_at |-> now,
                 quiz_type |-> parseResult.quizType,
                 question_count |-> Len(parseResult.questions)],
   questions |-> [k \in 1..Len(parseResult.questions) |->
                    ExportQuestion(parseResult.questions[k])]]

\* A faulty blob.setName that prefixes the name the blob already has
SetName_Prefixing(entry) ==
  [entry.blob EXCEPT !.name = S_IMAGES \o (IF @ = Null THEN entry.filename ELSE @)]

\* blob.setName(`images/${filename}`)
SetName(entry) ==
  [entry.blob EXCEPT !.name = S_IMAGES \o entry.filename]

\* parseResult.images after generateZip: every blob carries its archive name
ImagesAfterExport(imageStore) ==
  [k \in 1..Len(imageStore) |-> [imageStore[k] EXCEPT !.blob = SetName(imageStore[k])]]

\* A faulty generateZip that leaves the images out of the archive
generateZip_JsonOnly(parseResult, now) ==
  [name |-> S_ZIP_NAME,
   entries |-> <<[name |-> S_QUIZ_JSON, bytes |-> ExportJson(parseResult, now)]>>]

\* generateZip: the archive it returns, quiz.json first, then one entry per image
generateZip(parseResult, now) ==
  [name |-> S_ZIP_NAME,
   entries |->
     <<[name |-> S_QUIZ_JSON, bytes |-> ExportJson(parseResult, now)]>>
     \o [k \in 1..Len(parseResult.images) |->
           [name |-> SetName(parseResult.images[k]).name,
            bytes |-> parseResult.images[k].blob.bytes]]]

\* A faulty exportQuiz that exports whatever validate answered
Export_Unchecked(now) ==
  /\ pc \in {"validated", "exported"}
  /\ Len(exports) < MaxExports
  /\ exports' = Append(exports, generateZip(returned, now))
  /\ returned' = [returned EXCEPT !.images = ImagesAfterExport(@)]
  /\ images' = ImagesAfterExport(images)
  /\ pc' = "exported"
  /\ UNCHANGED <<body, numChildren, i, quizType, questions, beginIndex, beginLine,
                 currentQuestion, state, err, validation, edits>>

\* exportQuiz, step 3: generateZip on a model validate accepted. The blobs of
\* parseResult.images are the objects the parser stored, and they are renamed.
Export(now) ==
  /\ pc \in {"validated", "exported"}
  /\ validation.isValid
  /\ Len(exports) < MaxExports
  /\ exports' = Append(exports, generateZip(returned, now))
  /\ returned' = [returned EXCEPT !.images = ImagesAfterExport(@)]
  /\ images' = ImagesAfterExport(images)
  /\ pc' = "exported"
  /\ UNCHANGED <<body, numChildren, i, quizType, questions, beginIndex, beginLine,
                 currentQuestion, state, err, validation, edits>>

\* exportQuiz: 'Export Blocked' when validation failed. When parse threw, the
\* catch reports the error and nothing else happens: pc stays "thrown".
ExportBlocked ==
  /\ pc = "validated"
  /\ ~validation.isValid
  /\ pc' = "exportBlocked"
  /\ UNCHANGED <<body, numChildren, i, quizType, questions, beginIndex, beginLine,
                 currentQuestion, state, err, returned, validation, images, exports, edits>>

Next ==
  \/ \E b \in Children : HeaderEmpty(b)
  \/ \E b \in Children : HeaderFound(b)
  \/ \E b \in Children : HeaderMismatch(b)
  \/ \E b \in Children : HeaderOtherElement(b)
  \/ HeaderAbsent
  \/ MainSkipHeader
  \/ \E b \in Children : MainBeginElsewhere(b)
  \/ \E b \in Children : MainQuestionTag(b)
  \/ \E b \in Children : MainQuestionTagInvalid(b)
  \/ \E b \in Children : MainOptionsTag(b)
  \/ \E b \in Children : MainOptionsTagRejected(b)
  \/ \E b \in Children : MainDescriptionsTag(b)
  \/ \E b \in Children : MainDescriptionsTagRejected(b)
  \/ \E b \in Children : MainNoQuestion(b)
  \/ \E b \in Children : MainContent(b)
  \/ Finish
  \/ Validate
  \/ \E now \in Timestamps : Export(now)
  \/ ExportBlocked

Spec == Init /\ [][Next]_vars

----------------------------------------------------------------------------
(* parse on documents written in full: an MCQ quiz of MaxDocQuestions questions
   with images in the content, a table, the options and the descriptions of
   its first question and in the content of its last; the same quiz with an
   option whose text is cut in formatting runs; an ESSAY quiz with an equation.
   The formatting runs differ in attributes that add nothing to the HTML
   (colour, font, size). *)

I_png  == InlineImage("image/png", "PNG-1", 0, 0)
I_gif  == InlineImage("image/gif", "GIF-1", 0, 30)
I_webp == InlineImage("image/webp", "WEBP-1", 0, 0)

SampleImages == {I_jpeg, I_png, I_gif, I_webp}

T_markedBlueLead == <<" ">> \o T_markedBlue
T_markedTwice    == S_MARKER \o <<" ", "a">> \o S_MARKER \o <<"b">>
T_plainMarker    == <<"a">> \o S_MARKER \o <<" ", "b">>

\* Option list items: their text and where their formatting runs start
SampleOptions ==
  { StyledElement("LIST_ITEM", T_markedBlue, <<0>>, "LATIN_UPPER", <<>>, <<>>),
    StyledElement("LIST_ITEM", T_markedBlue, <<0, 1>>, "LATIN_UPPER", <<>>, <<>>),
    StyledElement("LIST_ITEM", T_markedBlue, <<0, 2>>, "LATIN_UPPER", <<>>, <<>>),
    StyledElement("LIST_ITEM", T_markedBlue, <<0, 3, 5>>, "LATIN_UPPER", <<>>, <<>>),
    StyledElement("LIST_ITEM", T_markedBlueLead, <<0, 1>>, "LATIN_UPPER", <<>>, <<>>),
    StyledElement("LIST_ITEM", T_markedBlueLead, <<0, 4>>, "LATIN_UPPER", <<>>, <<>>),
    StyledElement("LIST_ITEM", T_markedTwice, <<0, 4>>, "LATIN_UPPER", <<>>, <<>>),
    StyledElement("LIST_ITEM", T_markedTwice, <<0>>, "LATIN_UPPER", <<>>, <<>>),
    StyledElement("LIST_ITEM", T_plainMarker, <<0, 1>>, "LATIN_UPPER", <<>>, <<>>),
    StyledElement("LIST_ITEM", T_blue, <<0, 2>>, "LATIN_UPPER", <<>>, <<>>) }

\* The arguments of an equation function
T_100   == <<"1", "0", "0">>
T_times == <<"t", "i", "m", "e", "s">>

SampleArgs ==
  { EquationText(T_100), EquationText(<<>>), EquationSymbol(T_times, <<>>),
    EquationFunction(S_FRAC, <<EquationText(<<"1">>), EquationText(<<"2">>)>>) }

ArgLists == UNION {[1..n -> SampleArgs] : n \in 0..MaxArgs}

\* The MCQ quiz: option is the first option of question 1, image the image used
McqDocument(option, image) ==
  << Paragraph(T_beginMCQ),
     Paragraph(T_question),
     StyledElement("PARAGRAPH", T_blue, <<0>>, "NONE", <<>>, <<image, I_jpeg>>),
     Table(<< << <<StyledElement("PARAGRAPH", T_blue, <<0>>, "NONE", <<>>, <<image>>)>>,
                 <<ListItemWithImages(T_blue, "BULLET", <<I_jpeg>>),
                   Table(<< << <<ListItemWithImages(<<>>, "NUMBER", <<image>>)>> >> >>)>> >>,
              << <<StyledElement("PARAGRAPH", <<>>, <<0>>, "NONE", <<>>, <<I_png>>)>> >> >>),
     Paragraph(T_options),
     StyledElement("PARAGRAPH", T_blue, <<0>>, "NONE", <<>>, <<I_gif>>),
     option,
     ListItemWithImages(T_blue, "LATIN_UPPER", <<image>>),
     Paragraph(S_DESCRIPTIONS),
     ListItemWithImages(T_blue, "BULLET", <<image, image>>) >>
  \o [k \in 1..(MaxDocQuestions - 1) |-> Paragraph(T_question)]
  \o << StyledElement("PARAGRAPH", T_blue, <<0>>, "NONE", <<>>, <<image>>) >>

\* The ESSAY quiz: one question whose content is a paragraph with an equation
\* that holds the function code(args)
EssayDocument(code, args) ==
  << Paragraph(T_beginESSAY),
     Paragraph(T_question),
     StyledElement("PARAGRAPH", T_blue, <<0>>, "NONE",
                   <<Equation(<<EquationFunction(code, args)>>)>>, <<>>) >>

Documents ==
  {McqDocument(option, I_jpeg) : option \in SampleOptions}
    \cup {McqDocument(ListItem(T_markedBlue, "LATIN_UPPER"), image) : image \in SampleImages}
    \cup {EssayDocument(S_FRAC, args) : args \in ArgLists}

InitDocument ==
  /\ body \in Documents
  /\ numChildren = Len(body)
  /\ pc = "header"
  /\ i = 0
  /\ quizType = Null
  /\ questions = <<>>
  /\ beginIndex = NoIndex
  /\ beginLine = 0
  /\ currentQuestion = NoQuestion
  /\ state = "WAITING"
  /\ err = NoError
  /\ returned = NoModel
  /\ validation = NoValidation
  /\ images = <<>>
  /\ exports = <<>>
  /\ edits = <<>>

\* The steps of parse that a document of this kind takes
NextDocument ==
  \/ \E b \in Children : HeaderFound(b)
  \/ MainSkipHeader
  \/ \E b \in Children : MainQuestionTag(b)
  \/ \E b \in Children : MainOptionsTag(b)
  \/ \E b \in Children : MainDescriptionsTag(b)
  \/ \E b \in Children : MainContent(b)
  \/ Finish

DocumentSpec == InitDocument /\ [][NextDocument]_vars

----------------------------------------------------------------------------
(* QuizValidator.validate on models its caller writes by hand, as runTests does *)

\* Option texts: three that differ in white space only, one that differs in
\* case, one that differs in punctuation
V_ab       == <<"a", " ", "b">>
V_abSpaced == <<" ", "a", " ", " ", "b">>
V_abPadded == <<"a", " ", "b", " ">>
V_Ab       == <<"A", " ", "b">>
V_abDot    == <<"a", " ", "b", ".">>

\* Rendered HTML
H_ab        == OpenTag(N_p, <<>>) \o V_ab \o CloseTag(N_p)
H_formatted == OpenTag(N_p, <<>>) \o OpenTag(<<"b">>, <<>>) \o <<"a">>
                 \o CloseTag(<<"b">>) \o S_BR \o <<"b">> \o CloseTag(N_p)

\* The options a hand-written question is made of (id and line are given by
\* the position in the list)
OptionInput(text, choiceText, isCorrect) ==
  [text |-> text, choiceText |-> choiceText, isCorrect |-> isCorrect]

OptionInputs ==
  { OptionInput(H_ab, V_ab, TRUE), OptionInput(H_ab, V_ab, FALSE),
    OptionInput(H_ab, V_abSpaced, FALSE), OptionInput(H_ab, V_Ab, FALSE),
    OptionInput(H_ab, V_abDot, TRUE),
    OptionInput(Null, <<>>, FALSE), OptionInput(<<" ">>, <<>>, TRUE),
    OptionInput(<<" ">>, V_abPadded, FALSE),
    OptionInput(H_formatted, Null, FALSE) }

QuestionInput(k, content, hasTag, options) ==
  [num |-> k, line |-> 10 * k, content |-> content, hasOptionsTag |-> hasTag,
   optionsTagLine |-> IF hasTag THEN 10 * k + 1 ELSE 0, options |-> options]

\* A question whose options are still to be written
OpenQuestionInputs(k) ==
  {QuestionInput(k, c, t, o) :
     c \in {Null, <<" ">>, H_ab}, t \in BOOLEAN, o \in {Absent, <<>>}}

\* A few whole questions: with and without content, tag and options list
PlainQuestionInputs(k) ==
  {QuestionInput(k, c, t, o) :
     c \in {<<>>, H_ab}, t \in BOOLEAN,
     o \in {Absent,
            << [id |-> <<"o", "p", "t", "_", "0">>, text |-> H_ab,
                choiceText |-> V_ab, isCorrect |-> TRUE, line |-> 10 * k + 2],
               [id |-> <<"o", "p", "t", "_", "1">>, text |-> H_ab,
                choiceText |-> V_Ab, isCorrect |-> FALSE, line |-> 10 * k + 3] >>}}

KnownKind(model) == QuizTypeOf(model) \in {S_MCQ, S_ESSAY}

\* The questions that can be written at position k: for a model of a known
\* kind the first question is open to any options, the others are plain
QuestionInputs(model, k) ==
  IF k = 1 /\ KnownKind(model) THEN OpenQuestionInputs(k) ELSE PlainQuestionInputs(k)

\* The model validate will be given: none, or one of any kind whose question
\* list is missing or still empty
InitValidator ==
  /\ body = <<>>
  /\ numChildren = 0
  /\ pc = "returned"
  /\ i = 0
  /\ quizType = Null
  /\ questions = <<>>
  /\ beginIndex = NoIndex
  /\ beginLine = 0
  /\ currentQuestion = NoQuestion
  /\ state = "WAITING"
  /\ err = NoError
  /\ returned \in {NoModel} \cup
                   [quizType : {S_MCQ, S_ESSAY, Null, <<"m", "c", "q">>},
                    questions : {Absent, <<>>}]
  /\ validation = NoValidation
  /\ images = <<>>
  /\ exports = <<>>
  /\ edits = <<>>

\* The caller writes one more question into the model
GiveQuestion(q) ==
  /\ pc = "returned"
  /\ returned # NoModel
  /\ returned.questions # Absent
  /\ Len(returned.questions) < (IF KnownKind(returned) THEN MaxQuestions ELSE 1)
  /\ returned' = [returned EXCEPT !.questions = Append(@, q)]
  /\ UNCHANGED <<body, numChildren, pc, i, quizType, questions, beginIndex, beginLine,
                 currentQuestion, state, err, validation, images, exports, edits>>

\* The caller writes one more option into the first question
GiveOption(o) ==
  /\ pc = "returned"
  /\ KnownKind(returned)
  /\ returned.questions # Absent
  /\ Len(returned.questions) = 1
  /\ returned.questions[1].options # Absent
  /\ Len(returned.questions[1].options) < MaxOptions
  /\ LET q == returned.questions[1]
         n == Len(q.options)
     IN  returned' = [returned EXCEPT !.questions[1].options =
                        Append(@, [id |-> <<"o", "p", "t", "_">> \o ToStr(n),
                                   text |-> o.text, choiceText |-> o.choiceText,
                                   isCorrect |-> o.isCorrect, line |-> q.line + 2 + n])]
  /\ UNCHANGED <<body, numChildren, pc, i, quizType, questions, beginIndex, beginLine,
                 currentQuestion, state, err, validation, images, exports, edits>>

\* validate fails with a TypeError: its caller gets no result
ValidateFails ==
  /\ pc = "returned"
  /\ ValidateThrows(returned)
  /\ pc' = "validateThrew"
  /\ UNCHANGED <<body, numChildren, i, quizType, questions, beginIndex, beginLine,
                 currentQuestion, state, err, returned, validation, images, exports, edits>>

NextValidator ==
  \/ \E q \in QuestionInputs(returned, Len(QuestionsOf(returned)) + 1) : GiveQuestion(q)
  \/ \E o \in OptionInputs : GiveOption(o)
  \/ Validate
  \/ ValidateFails

ValidatorSpec == InitValidator /\ [][NextValidator]_vars

----------------------------------------------------------------------------
(* The menu commands that edit the document: toggleCorrectAnswer and
   renumberQuestionLabels. They change the text of paragraphs and list items;
   the formatting they set on the text they write is not tracked. *)

S_MARK_TEXT == <<"<", ">", " ">>

\* Text.deleteText(startOffset, endOffsetInclusive)
DeleteText(text, startOffset, endOffsetInclusive) ==
  SubSeq(text, 1, startOffset) \o Slice(text, endOffsetInclusive + 1)

\* Text.insertText(offset, inserted)
InsertText(text, offset, inserted) ==
  SubSeq(text, 1, offset) \o inserted \o Slice(text, offset)

\* raw.match(/^\s*/)[0].length
LeadingWsLen(raw) == Len(raw) - Len(TrimStart(raw))

\* A faulty match of the marker that takes all the white space after it
MarkMatchLen_AllSpaces(text) ==
  LET rest == TrimStart(text)
  IN  IF ~StartsWith(rest, S_MARKER) THEN 0
      ELSE Len(text) - Len(TrimStart(Slice(rest, 2)))

\* text.match(/^\s*<>\s?/): the length of the match, 0 when there is none
MarkMatchLen(text) ==
  LET rest == TrimStart(text)
  IN  IF ~StartsWith(rest, S_MARKER) THEN 0
      ELSE LeadingWsLen(text) + 2 + (IF Len(rest) >= 3 /\ IsSpace(rest[3]) THEN 1 ELSE 0)

\* removeMarkFromItem
removeMarkFromItem(listItem) ==
  IF MarkMatchLen(listItem.text) > 0
  THEN [listItem EXCEPT !.text = DeleteText(@, 0, MarkMatchLen(listItem.text) - 1)]
  ELSE listItem

\* findSiblingOptions: the first list item with the text and list of the given one
CurrentIndex(doc, k) ==
  LET same == {j \in 1..Len(doc) : /\ doc[j].type = "LIST_ITEM"
                                   /\ doc[j].text = doc[k].text
                                   /\ doc[j].listId = doc[k].listId}
  IN  CHOOSE j \in same : \A m \in same : j <= m

\* findSiblingOptions: the [OPTIONS] paragraph found going up from child j, 0 when
\* the start of the document or a [QUESTION / [DESCRIPTIONS] paragraph comes first
RECURSIVE OptionsStart(_, _)
OptionsStart(doc, j) ==
  IF j = 0 THEN 0
  ELSE IF doc[j].type # "PARAGRAPH" THEN OptionsStart(doc, j - 1)
  ELSE IF StartsWith(Trim(doc[j].text), S_OPTIONS) THEN j
  ELSE IF \/ StartsWith(Trim(doc[j].text), S_QUESTION)
          \/ StartsWith(Trim(doc[j].text), S_DESCRIPTIONS) THEN 0
  ELSE OptionsStart(doc, j - 1)

\* findSiblingOptions: the list items collected from child j on
RECURSIVE SiblingsFrom(_, _)
SiblingsFrom(doc, j) ==
  IF j > Len(doc) THEN {}
  ELSE IF doc[j].type = "LIST_ITEM" THEN {j} \cup SiblingsFrom(doc, j + 1)
  ELSE IF doc[j].type = "PARAGRAPH"
  THEN LET text == Trim(doc[j].text)
       IN  IF \/ StartsWith(text, S_QUESTION) \/ StartsWith(text, S_OPTIONS)
              \/ StartsWith(text, S_DESCRIPTIONS) \/ StartsWith(text, S_BEGIN)
           THEN {}
           ELSE IF text # <<>> THEN {}
           ELSE SiblingsFrom(doc, j + 1)
  ELSE {}

\* findSiblingOptions(listItem), for the list item that is child k: the positions
\* of the list items of its [OPTIONS] section
findSiblingOptions(doc, k) ==
  LET start == OptionsStart(doc, CurrentIndex(doc, k) - 1)
  IN  IF start = 0 THEN {} ELSE SiblingsFrom(doc, start + 1)

\* processElement for an element inside child k: the document and the flag after it.
\* The item itself is not marked when its siblings are cleared, so that the
\* outcome of sibling !== listItem makes no difference to it.
processElement(doc, k) ==
  IF doc[k].type # "LIST_ITEM" THEN [doc |-> doc, modified |-> FALSE]
  ELSE LET n == MarkMatchLen(doc[k].text)
           siblings == findSiblingOptions(doc, k)
           cleared == [j \in 1..Len(doc) |->
                         IF j \in siblings /\ j # k THEN removeMarkFromItem(doc[j])
                         ELSE doc[j]]
       IN  IF n > 0
           THEN [doc |-> [doc EXCEPT ![k].text = DeleteText(@, 0, n - 1)],
                 modified |-> TRUE]
           ELSE [doc |-> [cleared EXCEPT ![k].text = InsertText(@, 0, S_MARK_TEXT)],
                 modified |-> TRUE]

\* selection.getRangeElements().forEach(r => processElement(r.getElement())), from
\* element n of the selection on
RECURSIVE ProcessSelection(_, _, _, _)
ProcessSelection(doc, sel, n, modified) ==
  IF n > Len(sel) THEN [doc |-> doc, modified |-> modified]
  ELSE LET r == processElement(doc, sel[n])
       IN  ProcessSelection(r.doc, sel, n + 1, modified \/ r.modified)

\* What is selected when a command runs: nothing, the child the cursor is in, or
\* up to MaxSelection children that follow each other
Selections(doc) ==
  {<<>>} \cup
  UNION {{[n \in 1..m |-> k + n - 1] :
            m \in {m \in 1..MaxSelection : k + m - 1 <= Len(doc)}} : k \in 1..Len(doc)}

\* A faulty tag measure that takes every tag for the legacy one
_getQuestionTagInfoFromTrimmed__LegacyLength(trimmed) ==
  IF _parseQuestionTag(trimmed).kind = "tag"
  THEN [kind |-> "tag", tagLength |-> Len(S_QUESTION) + 1]
  ELSE [kind |-> "throw", tagLength |-> 0]

\* _getQuestionTagInfoFromTrimmed_, for a text that starts with [QUESTION
_getQuestionTagInfoFromTrimmed_(trimmed) ==
  LET rest == Slice(trimmed, Len(S_QUESTION))
      nd   == DigitPrefixLen(Slice(rest, 1))
  IN  IF StartsWith(trimmed, S_QUESTION \o <<"]">>)
      THEN [kind |-> "tag", tagLength |-> Len(S_QUESTION) + 1]
      ELSE IF /\ StartsWith(rest, <<"#">>)
              /\ nd >= 1
              /\ Len(rest) >= nd + 2
              /\ rest[nd + 2] = "]"
      THEN [kind |-> "tag", tagLength |-> Len(S_QUESTION) + nd + 2]
      ELSE [kind |-> "throw", tagLength |-> 0]

\* renumberQuestionLabels: the loop from child j on, counter tags rewritten so
\* far. An invalid tag ends the loop and leaves the tags before it rewritten.
RECURSIVE RenumberFrom(_, _, _)
RenumberFrom(doc, j, counter) ==
  IF j > Len(doc) THEN [doc |-> doc, counter |-> counter, threw |-> FALSE]
  ELSE IF ~IsTextBlock(doc[j]) \/ ~StartsWith(Trim(doc[j].text), S_QUESTION)
  THEN RenumberFrom(doc, j + 1, counter)
  ELSE LET raw  == doc[j].text
           info == _getQuestionTagInfoFromTrimmed_(Trim(raw))
           newTag == S_QUESTION \o <<"#">> \o ToStr(counter + 1) \o <<"]">>
           leadingWsLen == LeadingWsLen(raw)
           text == InsertText(DeleteText(raw, leadingWsLen,
                                         leadingWsLen + info.tagLength - 1),
                              leadingWsLen, newTag)
       IN  IF info.kind = "throw"
           THEN [doc |-> doc, counter |-> counter, threw |-> TRUE]
           ELSE RenumberFrom([doc EXCEPT ![j].text = text], j + 1, counter + 1)

T_cap         == <<" ">> \o S_QUESTION \o <<"]", " ", "c", "a", "p">>
T_question7   == S_QUESTION \o <<"#", "7", "]">>
T_red         == <<" ", " ", "r", "e", "d">>

\* The paragraphs and list items an author writes
Elements ==
  { Paragraph(<<>>), Paragraph(S_OPTIONS), Paragraph(T_cap), Paragraph(T_question7),
    Paragraph(T_questionBad), Paragraph(T_blue),
    ListItem(T_blue, "BULLET"), ListItem(T_red, "BULLET"), ListItem(T_markedBlue, "BULLET") }

\* The head of an MCQ quiz: the header, a question and its [OPTIONS] line
QuizHead == <<Paragraph(T_beginMCQ), Paragraph(T_cap), Paragraph(S_OPTIONS)>>

\* The number of elements the author has written after the head, if there is one
Written(doc) ==
  IF Len(doc) >= Len(QuizHead) /\ SubSeq(doc, 1, Len(QuizHead)) = QuizHead
  THEN Len(doc) - Len(QuizHead) ELSE Len(doc)

\* An open document, before any command has run: nothing in it, or the head
\* of a quiz
InitEditor ==
  /\ body \in {<<>>, QuizHead}
  /\ numChildren = 0
  /\ pc = "editing"
  /\ i = 0
  /\ quizType = Null
  /\ questions = <<>>
  /\ beginIndex = NoIndex
  /\ beginLine = 0
  /\ currentQuestion = NoQuestion
  /\ state = "WAITING"
  /\ err = NoError
  /\ returned = NoModel
  /\ validation = NoValidation
  /\ images = <<>>
  /\ exports = <<>>
  /\ edits = <<>>

\* The author writes one more paragraph or list item at the end of the document
WriteElement(el) ==
  /\ pc = "editing"
  /\ edits = <<>>
  /\ Written(body) < MaxElements
  /\ body' = Append(body, el)
  /\ UNCHANGED <<numChildren, pc, i, quizType, questions, beginIndex, beginLine,
                 currentQuestion, state, err, returned, validation, images, exports,
                 edits>>

\* toggleCorrectAnswer with the given selection; it throws when nothing is
\* selected and when no selected element is inside a list item
toggleCorrectAnswer(sel) ==
  LET r == ProcessSelection(body, sel, 1, FALSE)
  IN  /\ pc = "editing"
      /\ Len(edits) < MaxEdits
      /\ body' = r.doc
      /\ edits' = Append(edits, [op |-> "toggleCorrectAnswer", sel |-> sel,
                                 before |-> body, threw |-> ~r.modified])
      /\ UNCHANGED <<numChildren, pc, i, quizType, questions, beginIndex, beginLine,
                     currentQuestion, state, err, returned, validation, images, exports>>

\* renumberQuestionLabels; an invalid tag is reported by 'Renumber Failed'
renumberQuestionLabels ==
  LET r == RenumberFrom(body, 1, 0)
  IN  /\ pc = "editing"
      /\ Len(edits) < MaxEdits
      /\ body' = r.doc
      /\ edits' = Append(edits, [op |-> "renumberQuestionLabels", sel |-> <<>>,
                                 before |-> body, threw |-> r.threw])
      /\ UNCHANGED <<numChildren, pc, i, quizType, questions, beginIndex, beginLine,
                     currentQuestion, state, err, returned, validation, images, exports>>

NextEditor ==
  \/ \E el \in Elements : WriteElement(el)
  \/ \E sel \in Selections(body) : toggleCorrectAnswer(sel)
  \/ renumberQuestionLabels

EditorSpec == InitEditor /\ [][NextEditor]_vars

----------------------------------------------------------------------------
(* resetQuizAndSetType, the command that sets the kind of the quiz, and parse
   on the document that the command leaves *)

\* A faulty command that leaves the header lines further down as they are
ResetDocument_KeepsOldHeaders(doc, kind) ==
  <<Paragraph(S_BEGIN \o kind \o <<"]">>), Paragraph(<<>>)>> \o doc

\* resetQuizAndSetType with a valid kind: the header and a spacer are put in
\* front, and every paragraph or list item further down whose trimmed text
\* starts with [BEGIN# is given the empty text (container.setText(''))
ResetDocument(doc, kind) ==
  <<Paragraph(S_BEGIN \o kind \o <<"]">>), Paragraph(<<>>)>>
  \o [j \in 1..Len(doc) |->
        IF IsTextBlock(doc[j]) /\ Trim(doc[j].text) # <<>>
           /\ StartsWith(Trim(doc[j].text), S_BEGIN)
        THEN [doc[j] EXCEPT !.text = <<>>, !.indices = <<0>>]
        ELSE doc[j]]

\* _getQuizTypeHeaderInfo_ from child j on, as getQuizTypeHeader returns it:
\* type Null and line 0 when there is no header
RECURSIVE _getQuizTypeHeaderInfo_(_, _)
_getQuizTypeHeaderInfo_(doc, j) ==
  IF j > Len(doc) THEN [type |-> Null, line |-> 0]
  ELSE IF ~IsTextBlock(doc[j]) THEN [type |-> Null, line |-> 0]
  ELSE IF Trim(doc[j].text) = <<>> THEN _getQuizTypeHeaderInfo_(doc, j + 1)
  ELSE IF _parseBeginTag(doc[j].text) = Null THEN [type |-> Null, line |-> 0]
  ELSE [type |-> _parseBeginTag(doc[j].text), line |-> j]

getQuizTypeHeader(doc) == _getQuizTypeHeaderInfo_(doc, 1)

\* The kinds the command is called with (in upper case, as the sidebar sends
\* them), one of them invalid
T_quiz == <<"Q", "U", "I", "Z">>
ResetTypes == {S_MCQ, S_ESSAY, T_quiz}

\* What an author writes before the command runs
ResetElements ==
  { Paragraph(<<>>), Paragraph(T_beginMCQ), Paragraph(T_beginExtra),
    ListItem(T_beginESSAY, "BULLET"), Paragraph(T_blue), ListItem(T_blue, "BULLET"),
    Table(<< << <<Paragraph(T_beginMCQ)>> >> >>) }

\* resetQuizAndSetType(type)
resetQuizAndSetType(type) ==
  /\ pc = "editing"
  /\ Len(edits) < MaxEdits
  /\ body' = IF type \in {S_MCQ, S_ESSAY} THEN ResetDocument(body, type) ELSE body
  /\ edits' = Append(edits, [op |-> "resetQuizAndSetType", sel |-> <<>>, before |-> body,
                             threw |-> type \notin {S_MCQ, S_ESSAY}, type |-> type])
  /\ UNCHANGED <<numChildren, pc, i, quizType, questions, beginIndex, beginLine,
                 currentQuestion, state, err, returned, validation, images, exports>>

\* QuizParser.parse(body) is called on the document as it is
ParseDocument ==
  /\ pc = "editing"
  /\ pc' = "header"
  /\ numChildren' = Len(body)
  /\ UNCHANGED <<body, i, quizType, questions, beginIndex, beginLine,
                 currentQuestion, state, err, returned, validation, images, exports,
                 edits>>

NextReset ==
  \/ \E el \in ResetElements : WriteElement(el)
  \/ \E type \in ResetTypes : resetQuizAndSetType(type)
  \/ ParseDocument
  \/ \E b \in Children : HeaderEmpty(b)
  \/ \E b \in Children : HeaderFound(b)
  \/ \E b \in Children : HeaderMismatch(b)
  \/ \E b \in Children : HeaderOtherElement(b)
  \/ HeaderAbsent
  \/ MainSkipHeader
  \/ \E b \in Children : MainBeginElsewhere(b)
  \/ \E b \in Children : MainQuestionTag(b)
  \/ \E b \in Children : MainOptionsTag(b)
  \/ \E b \in Children : MainOptionsTagRejected(b)
  \/ \E b \in Children : MainNoQuestion(b)
  \/ \E b \in Children : MainContent(b)
  \/ Finish

ResetSpec == InitEditor /\ [][NextReset]_vars

----------------------------------------------------------------------------
(* Vocabulary of the properties, stated on the document and not on the parser *)

Parsed == pc \in {"returned", "validated"}

\* The block is empty for the header scan: a paragraph or list item of blank text
BlankBlock(b) == b.type \in {"PARAGRAPH", "LIST_ITEM"} /\ Trim(b.text) = <<>>

\* Position (1-based) of the first block that is not blank, 0 when there is none
FirstSignificant(doc) ==
  IF \A k \in 1..Len(doc) : BlankBlock(doc[k]) THEN 0
  ELSE CHOOSE k \in 1..Len(doc) :
         ~BlankBlock(doc[k]) /\ \A j \in 1..(k - 1) : BlankBlock(doc[j])

\* The quiz kind a block declares when it is exactly a header line, else Null
HeaderKind(b) ==
  IF b.type \notin {"PARAGRAPH", "LIST_ITEM"} THEN Null
  ELSE IF Trim(b.text) = T_beginMCQ THEN S_MCQ
  ELSE IF Trim(b.text) = T_beginESSAY THEN S_ESSAY
  ELSE Null

HasProperHeader(doc) ==
  FirstSignificant(doc) # 0 /\ HeaderKind(doc[FirstSignificant(doc)]) # Null

\* The block the main loop handles in the step that starts in this state
MainStepOn == pc = "main" /\ i < numChildren /\ i # beginIndex

StartsWithOptions(b) == StartsWith(BlockText(b), S_OPTIONS)

StartsWithDescriptions(b) == StartsWith(BlockText(b), S_DESCRIPTIONS)

StartsWithBegin(b) == StartsWith(BlockText(b), S_BEGIN)

StartsWithQuestion(b) == StartsWith(BlockText(b), S_QUESTION)

\* [QUESTION] or [QUESTION#<digits>], then anything
WellFormedQuestion(b) ==
  LET t == BlockText(b)
  IN  \/ StartsWith(t, T_question)
      \/ \E n \in 1..Len(t) :
           /\ Len(t) >= Len(S_QUESTION) + 1 + n + 1
           /\ t[Len(S_QUESTION) + 1] = "#"
           /\ \A d \in 1..n : IsDigit(t[Len(S_QUESTION) + 1 + d])
           /\ t[Len(S_QUESTION) + 1 + n + 1] = "]"

\* Lines (1-based) of the question tags of a document, the header line excluded
QuestionLines(doc) ==
  {k \in 1..Len(doc) : k # beginIndex + 1 /\ StartsWithQuestion(doc[k])}

----------------------------------------------------------------------------
(* C1 *)

Rule2(q) == Trim(q.content) # <<>>

Rule3(q) == ~q.hasOptionsTag /\ Len(q.options) = 0

Rule4(q) == q.hasOptionsTag

Rule5(q) == Len(q.options) >= 2

Rule6(q) == Cardinality({k \in 1..Len(q.options) : q.options[k].isCorrect}) = 1

Rule7(q) ==
  \A j, k \in 1..Len(q.options) :
    j < k => q.options[j].choiceText # q.options[k].choiceText

Rule7NonEmpty(q) ==
  \A j, k \in 1..Len(q.options) :
    (j < k /\ q.options[k].choiceText # <<>>)
      => q.options[j].choiceText # q.options[k].choiceText

SatisfiesRules(q, qt) ==
  /\ Rule2(q)
  /\ IF qt = S_ESSAY THEN Rule3(q)
     ELSE Rule4(q) /\ Rule5(q) /\ Rule6(q) /\ Rule7(q)

SatisfiesRulesNonEmpty(q, qt) ==
  /\ Rule2(q)
  /\ IF qt = S_ESSAY THEN Rule3(q)
     ELSE Rule4(q) /\ Rule5(q) /\ Rule6(q) /\ Rule7NonEmpty(q)

\* C1 as claimed: for every document parse accepts, validate finds the model
\* valid exactly when every question satisfies rules 2-7.
C1_ValidIffEveryQuestionSatisfiesRules ==
  pc = "validated" =>
    (validation.isValid <=>
       \A n \in 1..Len(returned.questions) :
         SatisfiesRules(returned.questions[n], returned.quizType))

\* C1 as amended: for every document parse accepts, validate finds the model
\* valid exactly when it has at least one question and every question
\* satisfies rules 2-7, rule 7 comparing only options whose choiceText is not
\* empty.
C1_ValidIffNonEmptyAndRulesHold ==
  pc = "validated" =>
    (validation.isValid <=>
       /\ Len(returned.questions) >= 1
       /\ \A n \in 1..Len(returned.questions) :
            SatisfiesRulesNonEmpty(returned.questions[n], returned.quizType))

\* A valid MCQ model in which two options of one question have the same
\* (empty) choiceText.
C1_Witness ==
  /\ pc = "validated"
  /\ validation.isValid
  /\ \E n \in 1..Len(returned.questions) : ~Rule7(returned.questions[n])

----------------------------------------------------------------------------
(* C2 *)

\* C2: once the header scan is over, parse is past the header exactly when
\* the first block that is not blank is a paragraph or list item whose trimmed
\* text is exactly [BEGIN#MCQ] or [BEGIN#ESSAY], quizType is then that kind and
\* the header position that block; in every other case parse has thrown the
\* missing-header error.
C2_HeaderRule ==
  pc # "header" =>
    IF HasProperHeader(body)
    THEN /\ ~(pc = "thrown" /\ err.kind = "MissingHeader")
         /\ quizType = HeaderKind(body[FirstSignificant(body)])
         /\ beginLine = FirstSignificant(body)
         /\ beginIndex = FirstSignificant(body) - 1
    ELSE /\ pc = "thrown"
         /\ err.kind = "MissingHeader"
         /\ quizType = Null

\* The header is a list item that follows a blank block, and the main loop runs.
C2_Witness ==
  /\ pc = "main"
  /\ beginIndex = 1
  /\ body[2].type = "LIST_ITEM"
  /\ quizType = S_ESSAY

----------------------------------------------------------------------------
(* C3 *)

\* C3: a block after the header whose text starts with [BEGIN# is never got
\* past: parse has thrown the BEGIN-placement error at that block, whatever
\* the parser state was.
C3_SecondBeginFails ==
  \A k \in 1..Len(body) :
    (beginIndex # NoIndex /\ k > beginIndex + 1 /\ StartsWithBegin(body[k]))
      => /\ pc = "thrown"
         /\ err.kind = "BeginPlacement"
         /\ err.line = k
         /\ k = Len(body)

\* A second [BEGIN# line met while the descriptions of a question are read.
C3_Witness ==
  /\ pc = "thrown"
  /\ err.kind = "BeginPlacement"
  /\ state = "READING_DESCRIPTIONS"

----------------------------------------------------------------------------
(* C4 *)

IdOfNum(n) == <<"q", <<"1", "2", "3", "4", "5", "6", "7", "8", "9">>[n]>>

\* C4: in a returned model there is one question per question tag, the n-th
\* question has num n, id "q"+n and the line of the n-th question tag of the
\* document, whatever digits the tags carry.
C4_DenseNumbering ==
  Parsed =>
    /\ Len(questions) = Cardinality(QuestionLines(body))
    /\ \A n \in 1..Len(questions) :
         /\ questions[n].num = n
         /\ questions[n].id = IdOfNum(n)
         /\ questions[n].line \in QuestionLines(body)
         /\ Cardinality({l \in QuestionLines(body) : l <= questions[n].line}) = n

\* [QUESTION#99] followed by [QUESTION#1]: two questions in the returned model.
C4_Witness ==
  /\ Parsed
  /\ Len(questions) = 2
  /\ Trim(body[questions[1].line].text) = T_question99
  /\ Trim(body[questions[2].line].text) = T_question1

----------------------------------------------------------------------------
(* C5 *)

C5_Step ==
  (MainStepOn /\ StartsWithOptions(body'[i + 1])) =>
    IF /\ currentQuestion # NoQuestion
       /\ quizType = S_MCQ
       /\ ~currentQuestion.hasOptionsTag
    THEN /\ pc' = "main"
         /\ err' = NoError
         /\ state' = "READING_OPTIONS"
         /\ currentQuestion'.hasOptionsTag
         /\ currentQuestion'.optionsTagLine = i + 1
    ELSE /\ pc' = "thrown"
         /\ err'.line = i + 1
         /\ state' = state
         /\ currentQuestion' = currentQuestion

\* C5: a step of the main loop on an [OPTIONS] block sets hasOptionsTag and
\* moves to READING_OPTIONS when a question is active, the quiz kind is MCQ
\* and the question has had no [OPTIONS] yet; in every other case parse fails
\* at that block.
C5_OptionsTagRule == [][C5_Step]_vars

\* An [OPTIONS] block has just been accepted.
C5_Witness ==
  /\ pc = "main"
  /\ state = "READING_OPTIONS"
  /\ currentQuestion # NoQuestion
  /\ currentQuestion.hasOptionsTag
  /\ currentQuestion.optionsTagLine = i
  /\ StartsWithOptions(body[i])

----------------------------------------------------------------------------
(* C6 *)

C6_Step ==
  (MainStepOn /\ StartsWithDescriptions(body'[i + 1])) =>
    IF /\ currentQuestion # NoQuestion
       /\ ~currentQuestion.hasDescriptionsTag
       /\ \/ quizType = S_MCQ /\ state = "READING_OPTIONS"
          \/ quizType = S_ESSAY /\ state = "READING_QUESTION"
    THEN /\ pc' = "main"
         /\ err' = NoError
         /\ state' = "READING_DESCRIPTIONS"
         /\ currentQuestion'.hasDescriptionsTag
    ELSE /\ pc' = "thrown"
         /\ err'.line = i + 1
         /\ state' = state
         /\ currentQuestion' = currentQuestion

\* Number of [DESCRIPTIONS] blocks between the n-th question tag and the next
DescriptionsTagsOf(n) ==
  Cardinality({k \in 1..Len(body) :
                 /\ StartsWithDescriptions(body[k])
                 /\ k > questions[n].line
                 /\ (n < Len(questions) => k < questions[n + 1].line)})

C6_AtMostOnce ==
  Parsed => \A n \in 1..Len(questions) :
              /\ DescriptionsTagsOf(n) <= 1
              /\ questions[n].hasDescriptionsTag <=> DescriptionsTagsOf(n) = 1

----------------------------------------------------------------------------
(* C7 *)

\* C7 as claimed: in an MCQ document parse does not fail at a [DESCRIPTIONS]
\* block that follows the content of a question and precedes its [OPTIONS].
C7_DescriptionsBeforeOptionsAccepted ==
  ~ /\ pc = "thrown"
    /\ quizType = S_MCQ
    /\ state = "READING_QUESTION"
    /\ currentQuestion # NoQuestion
    /\ ~currentQuestion.hasOptionsTag
    /\ ~currentQuestion.hasDescriptionsTag
    /\ currentQuestion.contentHtmlParts # <<>>
    /\ StartsWithDescriptions(body[Len(body)])

----------------------------------------------------------------------------
(* C8 *)

\* The block handled by the header scan is not the header it needs
HeaderViolation(b) == ~BlankBlock(b) /\ HeaderKind(b) = Null

\* The block handled by the main loop is a structural violation where it stands
MainViolation(b) ==
  \/ StartsWithBegin(b)
  \/ StartsWithQuestion(b) /\ ~WellFormedQuestion(b)
  \/ StartsWithOptions(b) /\ currentQuestion = NoQuestion
  \/ StartsWithDescriptions(b) /\ currentQuestion = NoQuestion
  \/ StartsWithOptions(b) /\ quizType = S_ESSAY
  \/ StartsWithOptions(b) /\ currentQuestion # NoQuestion /\ currentQuestion.hasOptionsTag
  \/ /\ StartsWithDescriptions(b)
     /\ currentQuestion # NoQuestion
     /\ currentQuestion.hasDescriptionsTag

Aborted ==
  /\ pc' = "thrown"
  /\ err' # NoError
  /\ i' = i
  /\ questions' = questions
  /\ currentQuestion' = currentQuestion
  /\ returned' = NoModel
  /\ validation' = NoValidation

C8_Step ==
  /\ pc # "thrown"
  /\ (pc = "header" /\ i < numChildren /\ HeaderViolation(body'[i + 1])) => Aborted
  /\ (pc = "header" /\ i = numChildren) => Aborted
  /\ (MainStepOn /\ MainViolation(body'[i + 1])) => Aborted

C8_NothingReturned ==
  pc = "thrown" =>
    /\ returned = NoModel
    /\ validation = NoValidation
    /\ Len(body) = IF i = numChildren THEN i ELSE i + 1

\* C8: a step on a block that is a structural violation throws, leaving the
\* questions as they were and returning nothing; no step is taken once parse
\* has thrown, so no later block is fetched and no model is ever returned.
C8_ViolationAborts == [][C8_Step]_vars /\ []C8_NothingReturned

\* A malformed question tag met after a first question, with blocks still to come.
C8_Witness ==
  /\ pc = "thrown"
  /\ err.kind = "InvalidQuestionTag"
  /\ currentQuestion # NoQuestion
  /\ i + 1 < numChildren
  /\ returned = NoModel

----------------------------------------------------------------------------
(* C9 *)

\* C9 as claimed: the error thrown at a block names the 1-based line of
\* that block.
C9_ErrorNamesLine ==
  (pc = "thrown" /\ i < numChildren) => (err.mentionsLine /\ err.line = i + 1)

----------------------------------------------------------------------------
(* C10 *)

\* C10: in a model returned for a [BEGIN#ESSAY] document every question has
\* no option and hasOptionsTag = FALSE.
C10_EssayHasNoOptions ==
  (Parsed /\ quizType = S_ESSAY) =>
    \A n \in 1..Len(questions) :
      /\ questions[n].options = <<>>
      /\ ~questions[n].hasOptionsTag

\* An ESSAY model whose question is followed by a list item carrying the marker.
C10_Witness ==
  /\ Parsed
  /\ quizType = S_ESSAY
  /\ Len(questions) >= 1
  /\ \E k \in 1..Len(body) :
       /\ k > questions[1].line
       /\ body[k].type = "LIST_ITEM"
       /\ StartsWith(BlockText(body[k]), S_MARKER)

----------------------------------------------------------------------------
(* C11 *)

HasError(kind, q) ==
  \E e \in 1..Len(validation.errors) :
    validation.errors[e].kind = kind /\ validation.errors[e].num = q.num

\* C11 as claimed: in every model parse returns for a [BEGIN#MCQ] document,
\* every question has hasOptionsTag = TRUE.
C11_McqQuestionsCarryOptionsTag ==
  (Parsed /\ returned.quizType = S_MCQ) =>
    \A n \in 1..Len(returned.questions) : returned.questions[n].hasOptionsTag

\* C11 as amended: parse returns an MCQ question that had no [OPTIONS] block
\* with hasOptionsTag = FALSE and no option; it is validate that reports it,
\* with a 'Missing [OPTIONS]' error for exactly the questions without the tag.
C11_MissingOptionsTagLeftToValidator ==
  (Parsed /\ returned.quizType = S_MCQ) =>
    \A n \in 1..Len(returned.questions) :
      LET q == returned.questions[n]
      IN  /\ q.hasOptionsTag <=>
               \E k \in (q.line + 1)..Len(body) :
                 /\ StartsWithOptions(body[k])
                 /\ \A j \in QuestionLines(body) : ~(q.line < j /\ j < k)
          /\ ~q.hasOptionsTag => q.options = <<>>
          /\ pc = "validated" => (~q.hasOptionsTag <=> HasError("MissingOptions", q))

\* A validated MCQ model whose first question has no [OPTIONS] and whose
\* second question has one.
C11_Witness ==
  /\ pc = "validated"
  /\ returned.quizType = S_MCQ
  /\ Len(returned.questions) = 2
  /\ ~returned.questions[1].hasOptionsTag
  /\ returned.questions[2].hasOptionsTag
  /\ HasError("MissingOptions", returned.questions[1])

----------------------------------------------------------------------------
(* C12 *)

\* The blocks fetched so far are a [BEGIN#ESSAY] document in which an
\* [OPTIONS] block follows a question tag
EssayWithOptionsInQuestion ==
  /\ HasProperHeader(body)
  /\ HeaderKind(body[FirstSignificant(body)]) = S_ESSAY
  /\ \E j \in QuestionLines(body) : \E k \in (j + 1)..Len(body) :
       WellFormedQuestion(body[j]) /\ StartsWithOptions(body[k])

\* C12 as claimed: a [BEGIN#ESSAY] document with a question that contains an
\* [OPTIONS] block is not stopped by parse, and its validation has exactly one
\* error, '[OPTIONS] is not allowed for ESSAY'.
C12_EssayOptionsReachesValidation ==
  EssayWithOptionsInQuestion =>
    /\ pc # "thrown"
    /\ pc = "validated" =>
         /\ Len(validation.errors) = 1
         /\ validation.errors[1].kind = "OptionsNotAllowedForEssay"

\* C12 as amended: on a [BEGIN#ESSAY] document with a question that contains
\* an [OPTIONS] block, parse fails at the [OPTIONS] block with the
\* 'not allowed for ESSAY' error, nothing is returned and validate is never
\* run; the validation of an ESSAY document that parse accepts never holds
\* the '[OPTIONS] is not allowed for ESSAY' error.
C12_EssayOptionsAbortsParse ==
  /\ EssayWithOptionsInQuestion =>
       /\ pc = "thrown"
       /\ err = ErrorAtLine("OptionsInEssay", Len(body))
       /\ StartsWithOptions(body[Len(body)])
       /\ returned = NoModel
       /\ validation = NoValidation
  /\ (pc = "validated" /\ returned.quizType = S_ESSAY) =>
       \A e \in 1..Len(validation.errors) :
         validation.errors[e].kind # "OptionsNotAllowedForEssay"

\* parse has failed on the [OPTIONS] block of an ESSAY question.
C12_Witness ==
  /\ EssayWithOptionsInQuestion
  /\ pc = "thrown"
  /\ err.kind = "OptionsInEssay"

----------------------------------------------------------------------------
(* C13 *)

FatalError(kind) == [kind |-> kind, num |-> 0, line |-> 0, count |-> 0, key |-> <<>>]

InvalidKind ==
  returned = NoModel \/ (returned.quizType # S_MCQ /\ returned.quizType # S_ESSAY)

NoQuestionList ==
  returned = NoModel \/ returned.questions = Absent \/ returned.questions = <<>>

\* C13: given a model whose kind is neither MCQ nor ESSAY, or whose question
\* list is missing or empty, validate returns isValid = FALSE, no warning and
\* exactly one error, at line 0, that belongs to no question.
C13_FatalErrorShortCircuits ==
  (pc # "returned" /\ (InvalidKind \/ NoQuestionList)) =>
    /\ pc = "validated"
    /\ validation =
         [isValid |-> FALSE, warnings |-> <<>>,
          errors |-> <<FatalError(IF InvalidKind THEN "InvalidQuizType"
                                  ELSE "NoQuestions")>>]

\* validate has returned for a model of unknown kind whose question has empty
\* content: a per-question check would have found an error.
C13_Witness ==
  /\ pc = "validated"
  /\ InvalidKind
  /\ returned # NoModel
  /\ returned.questions # Absent
  /\ Len(returned.questions) = 1
  /\ Trim(returned.questions[1].content) = <<>>

----------------------------------------------------------------------------
(* C14 *)

\* C14: in every result of validate, isValid is TRUE exactly when the list of
\* errors is empty, however many warnings there are.
C14_ValidIffNoErrors ==
  pc = "validated" => (validation.isValid <=> Len(validation.errors) = 0)

\* A result without errors and with a warning, which is valid.
C14_Witness ==
  /\ pc = "validated"
  /\ validation.isValid
  /\ Len(validation.errors) = 0
  /\ Len(validation.warnings) >= 1

----------------------------------------------------------------------------
(* C15 *)

\* validate has returned the result of its per-question checks
Checked == pc = "validated" /\ KnownKind(returned) /\ ~NoQuestionList

\* The errors of one kind that the result holds for question q
ErrorsFor(kind, q) ==
  {e \in 1..Len(validation.errors) :
     validation.errors[e].kind = kind /\ validation.errors[e].num = q.num}

BlankContent(q) ==
  q.content = Null \/ \A c \in 1..Len(q.content) : q.content[c] = " "

\* C15: for MCQ and for ESSAY, the result holds exactly one 'Content is
\* empty' error, at the question's line, for each question whose content is
\* missing or blank, and none for a question with content.
C15_ContentEmptyError ==
  Checked =>
    \A n \in 1..Len(returned.questions) :
      LET q == returned.questions[n]
      IN  IF BlankContent(q)
          THEN /\ Cardinality(ErrorsFor("ContentEmpty", q)) = 1
               /\ \A e \in ErrorsFor("ContentEmpty", q) : validation.errors[e].line = q.line
          ELSE ErrorsFor("ContentEmpty", q) = {}

\* A checked model of two questions, the first without content, the second
\* with content.
C15_Witness ==
  /\ Checked
  /\ Len(returned.questions) = 2
  /\ returned.questions[1].content = Null
  /\ returned.questions[2].content = H_ab
  /\ ErrorsFor("ContentEmpty", returned.questions[1]) # {}

----------------------------------------------------------------------------
(* C16 *)

McqErrorKinds ==
  {"MissingOptions", "TooFewOptions", "NoCorrectAnswer", "MultipleCorrectAnswers",
   "DuplicateOptions"}

HasOptions(q) == q.options # Absent /\ Len(q.options) >= 1

\* C16: for ESSAY, validate always returns; the result holds exactly one
\* '[OPTIONS] is not allowed for ESSAY' error for each question that has
\* hasOptionsTag set or at least one option, none for the other questions,
\* and no error of an MCQ check for any question.
C16_EssayOptionsError ==
  (pc # "returned" /\ QuizTypeOf(returned) = S_ESSAY) =>
    /\ pc = "validated"
    /\ ~NoQuestionList =>
         \A n \in 1..Len(returned.questions) :
           LET q == returned.questions[n]
           IN  /\ Cardinality(ErrorsFor("OptionsNotAllowedForEssay", q)) =
                    IF q.hasOptionsTag \/ HasOptions(q) THEN 1 ELSE 0
               /\ \A kind \in McqErrorKinds : ErrorsFor(kind, q) = {}

\* A checked ESSAY question without the tag whose three options are the same
\* text and all unmarked: one error, where the MCQ checks would give four.
C16_Witness ==
  /\ Checked
  /\ returned.quizType = S_ESSAY
  /\ ~returned.questions[1].hasOptionsTag
  /\ returned.questions[1].content = H_ab
  /\ returned.questions[1].options # Absent
  /\ Len(returned.questions[1].options) = 3
  /\ \A k \in 1..3 : /\ returned.questions[1].options[k].choiceText = V_ab
                      /\ ~returned.questions[1].options[k].isCorrect
  /\ Len(returned.questions) = 1
  /\ Len(validation.errors) = 1

----------------------------------------------------------------------------
(* C17 *)

\* C17: for MCQ, the result holds a 'Missing [OPTIONS]' error for a question
\* exactly when its hasOptionsTag is FALSE, whatever the number of its options.
C17_MissingOptionsError ==
  (Checked /\ returned.quizType = S_MCQ) =>
    \A n \in 1..Len(returned.questions) :
      LET q == returned.questions[n]
      IN  Cardinality(ErrorsFor("MissingOptions", q)) = IF q.hasOptionsTag THEN 0 ELSE 1

\* A checked MCQ question without the tag that has two different options, one
\* of them correct: 'Missing [OPTIONS]' is its only error.
C17_Witness ==
  /\ Checked
  /\ returned.quizType = S_MCQ
  /\ Len(returned.questions) = 1
  /\ ~returned.questions[1].hasOptionsTag
  /\ Len(returned.questions[1].options) = 2
  /\ Len(validation.errors) = 1
  /\ validation.errors[1].kind = "MissingOptions"

----------------------------------------------------------------------------
(* C18 *)

\* C18 as claimed: for MCQ, the result of validate holds a 'Needs at least 2
\* options' error for a question exactly when it has fewer than 2 options,
\* and the error reports the number of options, 0 when the question has no
\* options list.
C18_TooFewOptionsError ==
  (pc # "returned" /\ QuizTypeOf(returned) = S_MCQ /\ ~NoQuestionList) =>
    \A n \in 1..Len(returned.questions) :
      LET q     == returned.questions[n]
          count == IF q.options = Absent THEN 0 ELSE Len(q.options)
      IN  IF count < 2
          THEN /\ pc = "validated"
               /\ Cardinality(ErrorsFor("TooFewOptions", q)) = 1
               /\ \A e \in ErrorsFor("TooFewOptions", q) :
                    validation.errors[e].count = count
          ELSE pc = "validated" => ErrorsFor("TooFewOptions", q) = {}

----------------------------------------------------------------------------
(* C19 *)

MarkedCorrect(q) == {k \in 1..Len(q.options) : q.options[k].isCorrect}

\* C19: for MCQ, the result holds for each question one 'No correct answer'
\* error when none of its options is correct, one 'Multiple correct answers
\* found (k)' error with k the number of correct options when k > 1, and no
\* error of either kind when exactly one option is correct.
C19_CorrectCountError ==
  (Checked /\ returned.quizType = S_MCQ) =>
    \A n \in 1..Len(returned.questions) :
      LET q    == returned.questions[n]
          k    == Cardinality(MarkedCorrect(q))
          none == ErrorsFor("NoCorrectAnswer", q)
          many == ErrorsFor("MultipleCorrectAnswers", q)
      IN  /\ Cardinality(none) = IF k = 0 THEN 1 ELSE 0
          /\ Cardinality(many) = IF k > 1 THEN 1 ELSE 0
          /\ \A e \in many : validation.errors[e].count = k

\* A checked MCQ question with two different options, both marked correct:
\* its only error is 'Multiple correct answers found (2)'.
C19_Witness ==
  /\ Checked
  /\ returned.quizType = S_MCQ
  /\ Len(returned.questions) = 1
  /\ Len(returned.questions[1].options) = 2
  /\ MarkedCorrect(returned.questions[1]) = {1, 2}
  /\ Len(validation.errors) = 1
  /\ validation.errors[1].kind = "MultipleCorrectAnswers"
  /\ validation.errors[1].count = 2

----------------------------------------------------------------------------
(* C20 *)

\* The words of a text: its maximal runs of characters that are not spaces
RECURSIVE Words(_)
Words(s) ==
  LET t == TrimStart(s)
      n == IF \E k \in 1..Len(t) : t[k] = " "
           THEN (CHOOSE k \in 1..Len(t) : t[k] = " " /\ \A j \in 1..(k - 1) : t[j] # " ") - 1
           ELSE Len(t)
  IN  IF t = <<>> THEN <<>> ELSE <<SubSeq(t, 1, n)>> \o Words(Slice(t, n))

RECURSIVE JoinWords(_)
JoinWords(ws) ==
  IF ws = <<>> THEN <<>>
  ELSE IF Len(ws) = 1 THEN ws[1]
  ELSE ws[1] \o <<" ">> \o JoinWords(Tail(ws))

\* The value of an option for the comparison: the words of its choiceText,
\* or of its text without the HTML when it has no choiceText
ValueOf(o) ==
  Words(IF o.choiceText # Null THEN o.choiceText
        ELSE IF o.text # Null THEN _stripHtml_(o.text) ELSE <<>>)

\* The 'Duplicate options' errors the result holds for option k of question q
DuplicateErrorsFor(q, k) ==
  {e \in ErrorsFor("DuplicateOptions", q) : validation.errors[e].line = q.options[k].line}

\* C20 as claimed: for MCQ, an option gets exactly one 'Duplicate options'
\* error, naming its value, when an earlier option of the question has the
\* same value, and none when it is the first with its value.
C20_DuplicatePerLaterOption ==
  (Checked /\ returned.quizType = S_MCQ) =>
    \A n \in 1..Len(returned.questions) :
      LET q == returned.questions[n]
      IN  \A k \in 1..Len(q.options) :
            IF \E j \in 1..(k - 1) : ValueOf(q.options[j]) = ValueOf(q.options[k])
            THEN /\ Cardinality(DuplicateErrorsFor(q, k)) = 1
                 /\ \A e \in DuplicateErrorsFor(q, k) :
                      validation.errors[e].key = JoinWords(ValueOf(q.options[k]))
            ELSE DuplicateErrorsFor(q, k) = {}

\* C20 as amended: for MCQ, an option whose value is not empty gets exactly
\* one 'Duplicate options' error, naming its value, when an earlier option of
\* the question has the same value, and none when it is the first with its
\* value; an option whose value is empty gets none; so m options with one
\* non-empty value give m - 1 errors.
C20_DuplicatePerLaterNonEmptyOption ==
  (Checked /\ returned.quizType = S_MCQ) =>
    \A n \in 1..Len(returned.questions) :
      LET q == returned.questions[n]
      IN  /\ \A k \in 1..Len(q.options) :
               IF /\ ValueOf(q.options[k]) # <<>>
                  /\ \E j \in 1..(k - 1) : ValueOf(q.options[j]) = ValueOf(q.options[k])
               THEN /\ Cardinality(DuplicateErrorsFor(q, k)) = 1
                    /\ \A e \in DuplicateErrorsFor(q, k) :
                         validation.errors[e].key = JoinWords(ValueOf(q.options[k]))
               ELSE DuplicateErrorsFor(q, k) = {}
          /\ \A v \in {ValueOf(q.options[k]) : k \in 1..Len(q.options)} \ {<<>>} :
               Cardinality({e \in ErrorsFor("DuplicateOptions", q) :
                              validation.errors[e].key = JoinWords(v)})
                 = Cardinality({k \in 1..Len(q.options) : ValueOf(q.options[k]) = v}) - 1

\* A checked MCQ question whose three options are one text written with
\* different white space: two errors, for the second and the third option.
C20_Witness ==
  /\ Checked
  /\ returned.quizType = S_MCQ
  /\ Len(returned.questions[1].options) = 3
  /\ returned.questions[1].options[1].choiceText = V_ab
  /\ returned.questions[1].options[2].choiceText = V_abSpaced
  /\ returned.questions[1].options[3].choiceText = V_abPadded
  /\ Cardinality(ErrorsFor("DuplicateOptions", returned.questions[1])) = 2
  /\ DuplicateErrorsFor(returned.questions[1], 1) = {}

----------------------------------------------------------------------------
(* C21 *)

\* The warnings the result holds for option k of question q
WarningsFor(q, k) ==
  {w \in 1..Len(validation.warnings) :
     validation.warnings[w].num = q.num /\ validation.warnings[w].option = k}

BlankText(o) == o.text = Null \/ \A c \in 1..Len(o.text) : o.text[c] = " "

ErrorKinds ==
  {"InvalidQuizType", "NoQuestions", "ContentEmpty", "OptionsNotAllowedForEssay"}
    \cup McqErrorKinds

\* C21 as claimed: the result holds one warning, with the option's line, for
\* every option whose text is missing or blank, of every question of a model
\* that validate checks question by question, and none for the other options.
C21_WarningPerEmptyOption ==
  Checked =>
    \A n \in 1..Len(returned.questions) :
      LET q == returned.questions[n]
      IN  \A k \in 1..OptionCount(q) :
            /\ Cardinality(WarningsFor(q, k)) = IF BlankText(q.options[k]) THEN 1 ELSE 0
            /\ \A w \in WarningsFor(q, k) :
                 validation.warnings[w].line = q.options[k].line

\* C21 as amended: for MCQ, the result holds one warning, with the option's
\* line, for every option whose text is missing or blank and none for the
\* other options; for ESSAY it holds no warning at all; an empty text is
\* never the subject of an error.
C21_WarningPerEmptyMcqOption ==
  Checked =>
    /\ \A e \in 1..Len(validation.errors) : validation.errors[e].kind \in ErrorKinds
    /\ returned.quizType = S_ESSAY => validation.warnings = <<>>
    /\ returned.quizType = S_MCQ =>
         /\ \A n \in 1..Len(returned.questions) :
              LET q == returned.questions[n]
              IN  \A k \in 1..Len(q.options) :
                    /\ Cardinality(WarningsFor(q, k)) =
                         IF BlankText(q.options[k]) THEN 1 ELSE 0
                    /\ \A w \in WarningsFor(q, k) :
                         validation.warnings[w].line = q.options[k].line
         /\ \A w \in 1..Len(validation.warnings) :
              \E n \in 1..Len(returned.questions) :
                /\ validation.warnings[w].num = returned.questions[n].num
                /\ validation.warnings[w].option \in 1..Len(returned.questions[n].options)

\* A checked MCQ question with two options, the first of blank text and
\* marked correct: the result is valid and holds one warning, at line 12.
C21_Witness ==
  /\ Checked
  /\ returned.quizType = S_MCQ
  /\ Len(returned.questions) = 1
  /\ Len(returned.questions[1].options) = 2
  /\ BlankText(returned.questions[1].options[1])
  /\ ~BlankText(returned.questions[1].options[2])
  /\ validation.errors = <<>>
  /\ Len(validation.warnings) = 1
  /\ validation.warnings[1].line = returned.questions[1].options[1].line

----------------------------------------------------------------------------
(* C22 *)

\* C22 as claimed: whatever model it is given (none, one of unknown kind, one
\* without questions, one with a question that has no options list), validate
\* raises nothing and returns a result with isValid, errors and warnings.
C22_ValidateAlwaysReturns ==
  pc # "returned" =>
    /\ pc = "validated"
    /\ DOMAIN validation = {"isValid", "errors", "warnings"}

----------------------------------------------------------------------------
(* C23 *)

\* C23 as claimed: validate and generateZip leave the model they are given as
\* it was: quizType, every question and option, the image keys and the blobs
\* stored under them are the same after the call as before it.
C23_ExportLeavesModelUnchanged ==
  [][pc' \in {"validated", "exported"} => returned' = returned]_vars

----------------------------------------------------------------------------
(* C24 *)

\* The JSON document of an archive, with its timestamp field blanked
JsonWithoutTimestamp(zip) ==
  [zip.entries[1].bytes EXCEPT !.metadata.generated_at = 0]

\* The image assets of an archive: name and contents, in archive order
Assets(zip) == Tail(zip.entries)

\* C24: two exports of the same validated model give the same JSON in every
\* field but metadata.generated_at, and the same asset names and contents.
C24_SecondExportEqualsFirst ==
  \A a, b \in 1..Len(exports) :
    /\ JsonWithoutTimestamp(exports[a]) = JsonWithoutTimestamp(exports[b])
    /\ Assets(exports[a]) = Assets(exports[b])
    /\ exports[a].entries[1].name = exports[b].entries[1].name

\* A model with an image exported twice, at two different instants
C24_Witness ==
  /\ Len(exports) = 2
  /\ Assets(exports[1]) # <<>>
  /\ exports[1].entries[1].bytes.metadata.generated_at
       # exports[2].entries[1].bytes.metadata.generated_at

----------------------------------------------------------------------------
(* C25 *)

\* The entry of the exported JSON for question q of the model
IsExportOf(entry, q) ==
  /\ entry.id = q.id
  /\ entry.content = q.content
  /\ Len(entry.options) = Len(q.options)
  /\ \A k \in 1..Len(q.options) :
       /\ entry.options[k].content = q.options[k].text
       /\ entry.options[k].is_correct = q.options[k].isCorrect
  /\ entry.descriptions \in {q.descriptions, Null}
  /\ entry.descriptions = Null <=> (q.descriptions = Null \/ Trim(q.descriptions) = <<>>)

\* C25: the exported JSON carries the model's quiz kind and question count, the
\* questions and their options in model order, descriptions that are the
\* description HTML or null and never blank; the archive holds one asset named
\* images/<filename> per key of the model's image mapping, with its contents.
C25_ExportShape ==
  \A e \in 1..Len(exports) :
    LET json == exports[e].entries[1].bytes
        assets == Assets(exports[e])
    IN  /\ json.metadata.quiz_type = returned.quizType
        /\ json.metadata.question_count = Len(returned.questions)
        /\ Len(json.questions) = Len(returned.questions)
        /\ \A k \in 1..Len(returned.questions) :
             IsExportOf(json.questions[k], returned.questions[k])
        /\ Len(assets) = Len(returned.images)
        /\ \A k \in 1..Len(returned.images) :
             /\ assets[k].name = S_IMAGES \o returned.images[k].filename
             /\ assets[k].bytes = returned.images[k].blob.bytes
        /\ \A j, k \in 1..Len(assets) : assets[j].name = assets[k].name => j = k

\* An exported MCQ model: one question with two options, one of them with an image
C25_Witness ==
  /\ exports # <<>>
  /\ returned.quizType = S_MCQ
  /\ Len(returned.questions) = 1
  /\ Len(returned.questions[1].options) = 2
  /\ Len(Assets(exports[1])) = 1

----------------------------------------------------------------------------
(* C26 *)

\* An archive is produced by this step
Exports == Len(exports') > Len(exports)

\* C26: exportQuiz runs parse, validate, export in this order. generateZip is
\* called only when parse has returned a model and validate has answered
\* isValid = true for it; after a parse error or a validation error no
\* archive exists.
C26_ExportOnlyAfterValidParseAndValidate ==
  /\ [][Exports => /\ returned # NoModel
                   /\ validation # NoValidation
                   /\ validation.isValid]_vars
  /\ [](pc = "thrown" => exports = <<>>)
  /\ []((validation # NoValidation /\ ~validation.isValid) => exports = <<>>)
  /\ [](pc = "exportBlocked" => validation.errors # <<>>)

\* exportQuiz ended with 'Export Blocked' on a model with a validation error
C26_Witness ==
  /\ pc = "exportBlocked"
  /\ validation.errors # <<>>
  /\ exports = <<>>

----------------------------------------------------------------------------
(* C27 *)

\* An option of the model was read from a list item that holds an inline image
OptionWithImage ==
  \E n \in 1..Len(returned.questions) :
    \E k \in 1..Len(returned.questions[n].options) :
      body[returned.questions[n].options[k].line].inlineImages # <<>>

\* C27 as claimed: an MCQ document with an inline image inside an option list
\* item does not pass parse followed by validate with isValid = true.
C27_OptionImageNotAccepted ==
  (validation # NoValidation /\ returned.quizType = S_MCQ /\ OptionWithImage)
    => ~validation.isValid

----------------------------------------------------------------------------
(* C28 *)

\* The document as command n of edits left it
DocAfter(n) == IF n = Len(edits) THEN body ELSE edits[n + 1].before

\* Commands n and n + 1 are toggleCorrectAnswer with the cursor in child k,
\* a list item that carries no marker before the first of them
ToggledTwice(n, k) ==
  /\ n + 1 <= Len(edits)
  /\ edits[n].op = "toggleCorrectAnswer" /\ edits[n].sel = <<k>>
  /\ edits[n + 1].op = "toggleCorrectAnswer" /\ edits[n + 1].sel = <<k>>
  /\ edits[n].before[k].type = "LIST_ITEM"
  /\ ~StartsWith(TrimStart(edits[n].before[k].text), S_MARKER)

\* C28: toggleCorrectAnswer run twice on an unmarked option first adds the
\* marker and then removes it, and the option's text is then what it was
\* before the two calls, leading white space included.
C28_ToggleTwiceRestoresText ==
  \A n \in 1..Len(edits) : \A k \in 1..Len(body) :
    ToggledTwice(n, k) =>
      /\ StartsWith(DocAfter(n)[k].text, S_MARKER)
      /\ DocAfter(n + 1)[k].text = edits[n].before[k].text
      /\ ~edits[n].threw /\ ~edits[n + 1].threw

\* The option '  red', which starts with white space, toggled twice
C28_Witness ==
  \E k \in 1..Len(body) :
    /\ ToggledTwice(1, k)
    /\ edits[1].before[k].text = T_red
    /\ body[k].text = T_red

----------------------------------------------------------------------------
(* C29 *)

\* Child j of a document is a question tag as QuizParser.parse reads it
IsQuestionTag(doc, j) ==
  IsTextBlock(doc[j]) /\ _parseQuestionTag(BlockText(doc[j])).kind = "tag"

\* The place of the tag of child j among the question tags, in document order
TagRank(doc, j) == Cardinality({m \in 1..j : IsQuestionTag(doc, m)})

\* What a tag line holds after its tag: the text that follows the first "]"
RECURSIVE AfterTag(_)
AfterTag(text) ==
  IF text = <<>> THEN <<>>
  ELSE IF Head(text) = "]" THEN Tail(text) ELSE AfterTag(Tail(text))

\* Command n is a renumberQuestionLabels that ran to its end
Renumbered(n) ==
  /\ n <= Len(edits)
  /\ edits[n].op = "renumberQuestionLabels"
  /\ ~edits[n].threw

\* C29: when renumberQuestionLabels has run to its end, the k-th question tag
\* of the document reads [QUESTION#k], which is the number parse gives to the
\* k-th question; the white space before each tag, the text after it and
\* every other child are as before; a second run changes nothing.
C29_RenumberLabelsInOrder ==
  \A n \in 1..Len(edits) :
    Renumbered(n) =>
      LET before == edits[n].before
          after  == DocAfter(n)
      IN  /\ Len(after) = Len(before)
          /\ \A j \in 1..Len(before) :
               IF IsQuestionTag(before, j)
               THEN LET k   == TagRank(before, j)
                        tag == _parseQuestionTag(BlockText(after[j]))
                    IN  /\ StartsWith(TrimStart(after[j].text),
                                      S_QUESTION \o <<"#">> \o ToStr(k) \o <<"]">>)
                        /\ tag.kind = "tag" /\ tag.hasLabel
                        /\ tag.labelNumber = NextQuestionNum([m \in 1..(k - 1) |-> m], tag)
                        /\ TagRank(after, j) = k
                        /\ AfterTag(after[j].text) = AfterTag(before[j].text)
                        /\ LeadingWsLen(after[j].text) = LeadingWsLen(before[j].text)
                        /\ [after[j] EXCEPT !.text = <<>>] = [before[j] EXCEPT !.text = <<>>]
               ELSE after[j] = before[j]
          /\ (n + 1 <= Len(edits) /\ edits[n + 1].op = "renumberQuestionLabels")
               => (~edits[n + 1].threw /\ DocAfter(n + 1) = after)

\* A document with the tags ' [QUESTION] cap' and '[QUESTION#7]', in this or the
\* other order, renumbered twice
C29_Witness ==
  /\ Len(edits) = 2
  /\ Renumbered(1) /\ Renumbered(2)
  /\ \E j, k \in 1..Len(body) :
       /\ edits[1].before[j].text = T_cap
       /\ edits[1].before[k].text = T_question7
       /\ body # edits[1].before

----------------------------------------------------------------------------
(* C30 *)

\* The block the main loop reads in this step
BlockRead == body'[i + 1]

\* The main loop reads, in READING_OPTIONS, a block that is no tag
ReadsInOptions ==
  /\ InMainLoop
  /\ state = "READING_OPTIONS"
  /\ \A tag \in {S_BEGIN, S_QUESTION, S_OPTIONS, S_DESCRIPTIONS} :
       ~StartsWith(BlockText(BlockRead), tag)

\* The raw text of a list item without its leading marker
WithoutMarker(raw) ==
  IF StartsWith(TrimStart(raw), S_MARKER) THEN Slice(TrimStart(raw), 2) ELSE raw

\* C30: in READING_OPTIONS every list item appends exactly one option, with
\* id opt_<number of options before it>, line = block index + 1, isCorrect
\* exactly when the trimmed raw text starts with <>, and choiceText the raw
\* text without that marker, trimmed, its white space collapsed. A block that
\* is neither a list item nor a tag adds no option and no content. The state
\* stays READING_OPTIONS either way.
C30_OptionPerListItem ==
  [][ReadsInOptions =>
        /\ state' = "READING_OPTIONS" /\ pc' = "main" /\ i' = i + 1
        /\ questions' = questions
        /\ IF BlockRead.type = "LIST_ITEM"
           THEN LET n   == Len(currentQuestion.options)
                    opt == currentQuestion'.options[n + 1]
                IN  /\ Len(currentQuestion'.options) = n + 1
                    /\ SubSeq(currentQuestion'.options, 1, n) = currentQuestion.options
                    /\ [currentQuestion' EXCEPT !.options = <<>>]
                         = [currentQuestion EXCEPT !.options = <<>>]
                    /\ opt.id = <<"o", "p", "t", "_">> \o ToStr(n)
                    /\ opt.line = i + 1
                    /\ opt.isCorrect = StartsWith(Trim(BlockRead.text), S_MARKER)
                    /\ opt.choiceText = JoinWords(Words(WithoutMarker(BlockRead.text)))
           ELSE currentQuestion' = currentQuestion /\ images' = images
     ]_vars

\* The second option of a question, read from the list item ' <>  a  b ', is
\* opt_1, marked correct, with choiceText 'a b'
C30_Witness ==
  /\ pc = "main" /\ state = "READING_OPTIONS"
  /\ currentQuestion # NoQuestion
  /\ Len(currentQuestion.options) = 2
  /\ body[i].text = T_markedSpaced
  /\ currentQuestion.options[2].id = <<"o", "p", "t", "_", "1">>
  /\ currentQuestion.options[2].isCorrect
  /\ currentQuestion.options[2].choiceText = <<"a", " ", "b">>
  /\ currentQuestion.options[2].line = i

----------------------------------------------------------------------------
(* C34 *)

\* The question tags of the document that come after its header
TagsAfterHeader == {j \in (beginIndex + 2)..Len(body) : IsQuestionTag(body, j)}

\* C34: the model parse returns holds one question per question tag after
\* the header, the one still open at the end of input included; each has its
\* content and descriptions joined from its parts and no list left open.
C34_OpenQuestionAppended ==
  pc = "returned" =>
    /\ Len(returned.questions) = Cardinality(TagsAfterHeader)
    /\ \A n \in 1..Len(returned.questions) :
         LET q == returned.questions[n]
         IN  /\ IsQuestionTag(body, q.line) /\ q.line \in TagsAfterHeader
             /\ Cardinality({j \in TagsAfterHeader : j <= q.line}) = n
             /\ q.content = Join(q.contentHtmlParts)
             /\ q.descriptions = (IF Join(q.descriptionHtmlParts) = <<>> THEN Null
                                  ELSE Join(q.descriptionHtmlParts))
             /\ ~q._listOpen /\ ~q._descListOpen

\* A returned model of two questions whose document ends with a list item of
\* the second question: the list it opened is closed in the content
C34_Witness ==
  /\ pc = "returned"
  /\ Len(returned.questions) = 2
  /\ body[Len(body)].type = "LIST_ITEM"
  /\ returned.questions[2].line < Len(body)
  /\ returned.questions[2].content # <<>>
  /\ ~returned.questions[2].hasOptionsTag

----------------------------------------------------------------------------
(* C39 *)

\* The state changes the claim allows, with the block that causes each
AllowedStateChange ==
  \/ state' = "READING_QUESTION" /\ IsQuestionTag(body', i + 1)
  \/ /\ state = "READING_QUESTION" /\ state' = "READING_OPTIONS"
     /\ quizType = S_MCQ /\ IsOptionsTag(BlockText(BlockRead))
  \/ /\ state = "READING_OPTIONS" /\ state' = "READING_DESCRIPTIONS"
     /\ quizType = S_MCQ /\ IsDescriptionsTag(BlockText(BlockRead))
  \/ /\ state = "READING_QUESTION" /\ state' = "READING_DESCRIPTIONS"
     /\ quizType = S_ESSAY /\ IsDescriptionsTag(BlockText(BlockRead))

----------------------------------------------------------------------------
(* C40 *)

\* The main loop reads a [DESCRIPTIONS] block while the current question has
\* its [DESCRIPTIONS] tag already
SecondDescriptionsTag ==
  /\ InMainLoop
  /\ currentQuestion # NoQuestion
  /\ currentQuestion.hasDescriptionsTag
  /\ ~StartsWith(BlockText(BlockRead), S_BEGIN)
  /\ ~StartsWith(BlockText(BlockRead), S_QUESTION)
  /\ ~IsOptionsTag(BlockText(BlockRead))
  /\ IsDescriptionsTag(BlockText(BlockRead))

\* C40: parse never raises 'Duplicate [DESCRIPTIONS] tag'. While a question
\* that has its [DESCRIPTIONS] tag is the current one the state is
\* READING_DESCRIPTIONS, so that a second [DESCRIPTIONS] block of the question
\* is rejected by the placement check of the quiz kind.
C40_DuplicateDescriptionsUnreachable ==
  /\ [](err.kind # "DuplicateDescriptions")
  /\ []((pc = "main" /\ currentQuestion # NoQuestion /\ currentQuestion.hasDescriptionsTag)
          => state = "READING_DESCRIPTIONS")
  /\ [][SecondDescriptionsTag =>
          /\ pc' = "thrown"
          /\ err'.kind = (IF quizType = S_MCQ THEN "DescriptionsBeforeOptions"
                          ELSE "DescriptionsNotAfterContent")]_vars

\* An ESSAY document with two [DESCRIPTIONS] blocks in its question: parse
\* stopped at the second with the placement error
C40_Witness ==
  /\ pc = "thrown"
  /\ quizType = S_ESSAY
  /\ currentQuestion # NoQuestion
  /\ currentQuestion.hasDescriptionsTag
  /\ IsDescriptionsTag(BlockText(body[Len(body)]))
  /\ err.kind = "DescriptionsNotAfterContent"

----------------------------------------------------------------------------
(* C35 *)

GlyphTypes ==
  {"BULLET", "HOLLOW_BULLET", "SQUARE_BULLET", "NUMBER", "LATIN_UPPER",
   "LATIN_LOWER", "ROMAN_UPPER", "ROMAN_LOWER", "NONE"}

ListKinds == {_htmlListInfoFromGlyph(g) : g \in GlyphTypes}

IsListOpener(part) == \E kind \in ListKinds : part = OpenTag(kind.tag, kind.attrs)
IsListCloser(part) == \E kind \in ListKinds : part = CloseTag(kind.tag)
IsListItemPart(part) == StartsWith(part, OpenTag(N_li, <<>>))
IsOtherPart(part) == ~IsListOpener(part) /\ ~IsListCloser(part) /\ ~IsListItemPart(part)

\* The opening tag of the container that part k of the buffer is in
OpenerBefore(parts, k) ==
  parts[CHOOSE j \in 1..k : /\ IsListOpener(parts[j])
                            /\ \A m \in (j + 1)..k : ~IsListOpener(parts[m])]

\* A buffer of HTML parts whose list containers are balanced and not nested;
\* open, tag and attrs are the list the parser holds open at its end
ListsBalanced(parts, open, tag, attrs) ==
  /\ \A k \in 1..Len(parts) :
        /\ IsListOpener(parts[k]) =>
              /\ k = 1 \/ IsListCloser(parts[k - 1]) \/ IsOtherPart(parts[k - 1])
              /\ k < Len(parts) /\ IsListItemPart(parts[k + 1])
        /\ IsListItemPart(parts[k]) =>
              k > 1 /\ (IsListOpener(parts[k - 1]) \/ IsListItemPart(parts[k - 1]))
        /\ IsListCloser(parts[k]) =>
              /\ k > 1 /\ IsListItemPart(parts[k - 1])
              /\ \E kind \in ListKinds :
                    /\ OpenerBefore(parts, k) = OpenTag(kind.tag, kind.attrs)
                    /\ parts[k] = CloseTag(kind.tag)
        /\ IsOtherPart(parts[k]) =>
              (k = 1 \/ IsListCloser(parts[k - 1]) \/ IsOtherPart(parts[k - 1]))
  /\ open <=> (parts # <<>> /\ IsListItemPart(parts[Len(parts)]))
  /\ open => OpenerBefore(parts, Len(parts)) = OpenTag(tag, attrs)

QuestionListsBalanced(q) ==
  /\ ListsBalanced(q.contentHtmlParts, q._listOpen, q._listTag, q._listAttrs)
  /\ ListsBalanced(q.descriptionHtmlParts, q._descListOpen, q._descListTag, q._descListAttrs)

\* The main loop reads, as content of the buffer that is open in this state, a
\* list item of the kind of the list that is open
SameKindItem(open, tag, attrs) ==
  /\ InMainLoop
  /\ i' = i + 1
  /\ pc' = "main"
  /\ state' = state
  /\ currentQuestion # NoQuestion
  /\ BlockRead.type = "LIST_ITEM"
  /\ open
  /\ _htmlListInfoFromGlyph(BlockRead.glyph) = [tag |-> tag, attrs |-> attrs]

\* C35: in the HTML parts of the content and of the descriptions of every
\* question, list containers are balanced and never nested: an opening tag
\* comes after a closing tag or a non-list part and is followed by a list item,
\* a list item comes after an opening tag or a list item, a closing tag closes
\* the container that is open, and a paragraph or a table comes when no
\* container is open. A list item of the kind of the open container adds its
\* item only. The content list is open only while the question is read in
\* READING_QUESTION and the descriptions list only in READING_DESCRIPTIONS, and
\* no list is open in a question that is finished.
C35_ListContainersBalanced ==
  /\ [](currentQuestion # NoQuestion => QuestionListsBalanced(currentQuestion))
  /\ [](\A n \in 1..Len(questions) :
          /\ QuestionListsBalanced(questions[n])
          /\ ~questions[n]._listOpen /\ ~questions[n]._descListOpen)
  /\ []((currentQuestion # NoQuestion /\ pc = "main") =>
          /\ (currentQuestion._listOpen => state = "READING_QUESTION")
          /\ (currentQuestion._descListOpen => state = "READING_DESCRIPTIONS"))
  /\ [](pc = "returned" =>
          \A n \in 1..Len(returned.questions) :
            /\ QuestionListsBalanced(returned.questions[n])
            /\ ~returned.questions[n]._listOpen /\ ~returned.questions[n]._descListOpen)
  /\ [][(state = "READING_QUESTION"
          /\ SameKindItem(currentQuestion._listOpen, currentQuestion._listTag,
                          currentQuestion._listAttrs))
         => Len(currentQuestion'.contentHtmlParts) = Len(currentQuestion.contentHtmlParts) + 1]_vars
  /\ [][(state = "READING_DESCRIPTIONS"
          /\ SameKindItem(currentQuestion._descListOpen, currentQuestion._descListTag,
                          currentQuestion._descListAttrs))
         => Len(currentQuestion'.descriptionHtmlParts)
              = Len(currentQuestion.descriptionHtmlParts) + 1]_vars

\* A returned question whose content holds a list of one kind with two items,
\* closed by a list of another kind, itself closed at the end of the input
C35_Witness ==
  /\ pc = "returned"
  /\ Len(returned.questions) = 1
  /\ LET parts == returned.questions[1].contentHtmlParts IN
       /\ Len(parts) = 7
       /\ IsListOpener(parts[1]) /\ IsListItemPart(parts[2]) /\ IsListItemPart(parts[3])
       /\ IsListCloser(parts[4])
       /\ IsListOpener(parts[5]) /\ parts[5] # parts[1]
       /\ IsListItemPart(parts[6]) /\ IsListCloser(parts[7])

----------------------------------------------------------------------------
(* C31 *)

\* The list item that option k of question n of the model was read from
OptionItem(n, k) == body[returned.questions[n].options[k].line]

\* Where the first non-empty formatting run of the text of an element ends
FirstRunEnd(item) ==
  LET ends == {item.indices[k] : k \in 2..Len(item.indices)} \cup {Len(item.text)}
  IN  CHOOSE e \in ends : e > 0 /\ \A f \in ends : f > 0 => e <= f

\* C31: the text of an option marked correct is the escaped text of its list
\* item with the leading marker removed from the first non-empty formatting
\* run, once, and every later run kept as it is; the text of an option not
\* marked correct is the escaped text of its list item, nothing removed.
C31_MarkerStrippedFromFirstRunOnly ==
  pc = "returned" =>
    \A n \in 1..Len(returned.questions) :
      \A k \in 1..Len(returned.questions[n].options) :
        LET opt  == returned.questions[n].options[k]
            item == OptionItem(n, k)
            e    == FirstRunEnd(item)
        IN  (item.text # <<>> /\ item.inlineImages = <<>> /\ item.equations = <<>>) =>
              opt.text = IF opt.isCorrect
                         THEN _escapeHtml(StripLeadingMarker(SubSeq(item.text, 1, e)))
                                \o _escapeHtml(Slice(item.text, e))
                         ELSE _escapeHtml(item.text)

\* A correct option of two runs, both starting with the marker: the marker of
\* the second run is in the HTML
C31_Witness ==
  /\ pc = "returned"
  /\ Len(returned.questions[1].options) = 2
  /\ OptionItem(1, 1).text = T_markedTwice
  /\ OptionItem(1, 1).indices = <<0, 4>>
  /\ returned.questions[1].options[1].isCorrect
  /\ returned.questions[1].options[1].text = <<"a">> \o _escapeHtml(S_MARKER) \o <<"b">>

----------------------------------------------------------------------------
(* C32 *)

\* C32 as claimed: the text of every option with isCorrect = true has the
\* marker stripped: it does not begin, white space aside, with the escaped
\* marker, wherever the formatting runs of the list item start.
C32_CorrectOptionTextWithoutMarker ==
  pc = "returned" =>
    \A n \in 1..Len(returned.questions) :
      \A k \in 1..Len(returned.questions[n].options) :
        returned.questions[n].options[k].isCorrect =>
          ~StartsWith(TrimStart(returned.questions[n].options[k].text), _escapeHtml(S_MARKER))

----------------------------------------------------------------------------
(* C33 *)

\* The inline images of a block in the order a reader meets them; those of a
\* table are those of its cells, row after row
RECURSIVE BlockImages(_)
BlockImages(b) ==
  IF b.type = "TABLE"
  THEN Join([c \in 1..Len(Join(b.rows)) |->
               Join([k \in 1..Len(Join(b.rows)[c]) |-> BlockImages(Join(b.rows)[c][k])])])
  ELSE b.inlineImages

IsAnyTag(j) ==
  \/ j = beginLine
  \/ IsQuestionTag(body, j)
  \/ IsOptionsTag(BlockText(body[j]))
  \/ IsDescriptionsTag(BlockText(body[j]))

\* The tag that block j comes under: the last tag line before it
TagAbove(j) == CHOOSE m \in 1..(j - 1) : IsAnyTag(m) /\ \A o \in (m + 1)..(j - 1) : ~IsAnyTag(o)

\* Block j is rendered: it is content under a question, and under [OPTIONS]
\* it is a list item
RenderedAt(j) ==
  /\ ~IsAnyTag(j)
  /\ TagRank(body, j) >= 1
  /\ IsOptionsTag(BlockText(body[TagAbove(j)])) => body[j].type = "LIST_ITEM"

\* The images rendered for question n in the first upto blocks
RenderedImages(n, upto) ==
  Join([j \in 1..upto |->
          IF RenderedAt(j) /\ TagRank(body, j) = n THEN BlockImages(body[j]) ELSE <<>>])

ExpectedExtension(image) ==
  CASE image.blob.contentType = "image/png"  -> <<"p", "n", "g">>
    [] image.blob.contentType = "image/jpeg" -> <<"j", "p", "g">>
    [] image.blob.contentType = "image/gif"  -> <<"g", "i", "f">>
    [] OTHER                                 -> <<"p", "n", "g">>

\* q<n>_img_<kkk>.<ext>
ExpectedKey(n, k, image) ==
  <<"q">> \o ToStr(n) \o <<"_", "i", "m", "g", "_">>
    \o <<DigitChar(k \div 100), DigitChar((k \div 10) % 10), DigitChar(k % 10)>>
    \o <<".">> \o ExpectedExtension(image)

\* The image mapping after the first upto blocks: question after question, the
\* images of a question numbered from 1 in the order they are met
ExpectedStore(upto) ==
  Join([n \in 1..TagRank(body, upto) |->
          [k \in 1..Len(RenderedImages(n, upto)) |->
             [filename |-> ExpectedKey(n, k, RenderedImages(n, upto)[k]),
              blob |-> RenderedImages(n, upto)[k].blob]]])

\* C33: at every point of parse the image mapping holds, for every question,
\* the images rendered while it was the current question (content, table
\* cells, options, descriptions) under the keys q<n>_img_001, _002, ... in the
\* order they were met, with the extension of their MIME type (png when it
\* is unknown) and their own blob; no key is used twice, so that the mapping
\* has as many keys as images were rendered, and the numbers of one question
\* do not depend on the images of another.
C33_ImagesNumberedPerQuestion ==
  /\ pc = "main" => images = ExpectedStore(i)
  /\ pc = "returned" =>
       /\ returned.images = ExpectedStore(Len(body))
       /\ \A a, b \in 1..Len(returned.images) :
            returned.images[a].filename = returned.images[b].filename => a = b

\* The quiz with nine images in question 1 and one in the last question, of a
\* MIME type that _getExtension does not know
C33_Witness ==
  /\ pc = "returned"
  /\ Len(returned.questions) >= MaxDocQuestions
  /\ Len(returned.images) = 10
  /\ returned.images[1].blob = I_webp.blob
  /\ returned.images[9].filename = <<"q", "1", "_", "i", "m", "g", "_", "0", "0", "9", ".", "p", "n", "g">>
  /\ returned.images[10].filename = ExpectedKey(MaxDocQuestions, 1, I_webp)

----------------------------------------------------------------------------
(* C37 *)

\* The function of the equation of the content paragraph of the ESSAY quiz
ContentFunction == body[3].equations[1].children[1]

HasFracContent ==
  /\ pc = "returned"
  /\ returned.quizType = S_ESSAY
  /\ Len(body) = 3
  /\ body[3].equations # <<>>
  /\ ContentFunction.type = "EQUATION_FUNCTION"
  /\ ContentFunction.code = <<"f", "r", "a", "c">>

\* \frac{n}{d}
FracOf(n, d) == <<"\\", "f", "r", "a", "c", "{">> \o n \o <<"}", "{">> \o d \o <<"}">>

\* The content of a question that is one paragraph: its text and one equation
ContentWith(text, latex) ==
  <<"<", "p", ">">> \o text \o <<"$">> \o latex \o <<"$">> \o <<"<", "/", "p", ">">>

\* C37: a frac function renders as \frac{n}{d} with n its first rendered
\* argument (empty when it has none) and d its other rendered arguments one
\* after the other, for any number of arguments; the arguments 100, empty and
\* the symbol times give \frac{100}{\times}.
C37_FracNumeratorAndDenominator ==
  HasFracContent =>
    LET args     == ContentFunction.children
        rendered == [k \in 1..Len(args) |-> _extractNode(args[k])]
    IN  /\ returned.questions[1].content =
             ContentWith(T_blue,
               FracOf(IF args = <<>> THEN <<>> ELSE rendered[1],
                      Join([k \in 1..(Len(args) - 1) |-> rendered[k + 1]])))
        /\ args = <<EquationText(T_100), EquationText(<<>>), EquationSymbol(T_times, <<>>)>>
             => returned.questions[1].content =
                  ContentWith(T_blue,
                    <<"\\", "f", "r", "a", "c", "{", "1", "0", "0", "}", "{",
                      "\\", "t", "i", "m", "e", "s", "}">>)

\* A frac of three arguments, the second empty: 100, empty, times
C37_Witness ==
  /\ HasFracContent
  /\ ContentFunction.children =
       <<EquationText(T_100), EquationText(<<>>), EquationSymbol(T_times, <<>>)>>

----------------------------------------------------------------------------
(* C36 *)

\* The document is the head of a quiz followed by list items and paragraphs
\* that are no tag lines: parse reads every list item after the head as an
\* option of the one question, in READING_OPTIONS
SingleQuestionQuiz(doc) ==
  /\ Len(doc) > Len(QuizHead)
  /\ SubSeq(doc, 1, Len(QuizHead)) = QuizHead
  /\ \A j \in (Len(QuizHead) + 1)..Len(doc) :
        /\ IsTextBlock(doc[j])
        /\ ~StartsWith(BlockText(doc[j]), <<"[">>)

OptionsOfQuiz(doc) == {j \in (Len(QuizHead) + 1)..Len(doc) : doc[j].type = "LIST_ITEM"}

\* The list item carries the marker as parse reads it
MarkedForParser(el) == HasLeadingMarker(Trim(el.text))

\* Command n of edits is toggleCorrectAnswer and has turned the marker on for
\* child k of a single-question quiz
TurnedOn(n, k) ==
  /\ edits[n].op = "toggleCorrectAnswer"
  /\ ~edits[n].threw
  /\ SingleQuestionQuiz(edits[n].before)
  /\ \E s \in 1..Len(edits[n].sel) : edits[n].sel[s] = k
  /\ k \in OptionsOfQuiz(edits[n].before)
  /\ ~MarkedForParser(edits[n].before[k])
  /\ MarkedForParser(DocAfter(n)[k])

\* C36 as claimed: after toggleCorrectAnswer has turned the marker on for an
\* option, no other list item that parse reads as an option of the same
\* question carries the marker, whatever was marked before, whatever was
\* selected and whatever lies between the options.
C36_OneMarkedOptionAfterToggle ==
  \A n \in 1..Len(edits) : \A k \in 1..Len(body) :
    TurnedOn(n, k) =>
      \A m \in OptionsOfQuiz(DocAfter(n)) : m # k => ~MarkedForParser(DocAfter(n)[m])

----------------------------------------------------------------------------
(* C38 *)

\* The last command that ran is resetQuizAndSetType with a valid kind
AfterReset ==
  /\ edits # <<>>
  /\ edits[Len(edits)].op = "resetQuizAndSetType"
  /\ ~edits[Len(edits)].threw

ResetType == edits[Len(edits)].type

\* C38: after resetQuizAndSetType(T) with T = MCQ or ESSAY, on any document,
\* the first non-empty block is the line [BEGIN#T] and no other top-level
\* paragraph or list item starts with [BEGIN#; parse of the document raises
\* neither the missing-header nor the BEGIN-placement error and sets quizType
\* to T, and getQuizTypeHeader reports T at line 1.
C38_ResetLeavesOneHeader ==
  AfterReset =>
    /\ FirstSignificant(body) = 1
    /\ body[1].type = "PARAGRAPH"
    /\ body[1].text = S_BEGIN \o ResetType \o <<"]">>
    /\ \A j \in 2..Len(body) :
         IsTextBlock(body[j]) => ~StartsWith(Trim(body[j].text), S_BEGIN)
    /\ err.kind \notin {"MissingHeader", "BeginPlacement"}
    /\ pc \in {"main", "returned", "thrown"} => quizType = ResetType
    /\ getQuizTypeHeader(body) = [type |-> ResetType, line |-> 1]

\* parse has returned the model of a document that held, before the command
\* ran with ESSAY, an MCQ header and a second line that starts with [BEGIN#
C38_Witness ==
  /\ AfterReset
  /\ ResetType = S_ESSAY
  /\ pc = "returned"
  /\ returned.quizType = S_ESSAY
  /\ Len(edits) = 1
  /\ Len(edits[1].before) >= 2
  /\ edits[1].before[1] = Paragraph(T_beginMCQ)
  /\ \E j \in 2..Len(edits[1].before) : edits[1].before[j] = Paragraph(T_beginExtra)

====
